---- MODULE Spec2Model ----
(***************************************************************************)
(* Model of the Claude -> Graphiti hook: graphiti_integration.py           *)
(* (TranscriptParser, GraphitiIntegration, main) and session_analyzer.py   *)
(* (SessionAnalyzer).                                                      *)
(*                                                                         *)
(* Python strings are sequences of one-character strings.  A Python call   *)
(* that may raise is an operator returning [raised, val]; a try/except is  *)
(* the test of that flag.                                                  *)
(***************************************************************************)
EXTENDS Integers, Sequences, FiniteSets, TLC

\* ------------------------------------------------------------------------
\* Bounds of the model
\* ------------------------------------------------------------------------
MaxLines == 2
MaxItems == 2
MaxMsgs == 2
MaxBusy == 6

MaxStamps == 3

MaxTools == 3

MaxMixed == 4

MaxUsers == 4

MaxFiles == 6

MaxResults == 10

MaxExcess == 2

\* ------------------------------------------------------------------------
\* Python str primitives
\* ------------------------------------------------------------------------
LowerAlpha == <<"a","b","c","d","e","f","g","h","i","j","k","l","m",
                "n","o","p","q","r","s","t","u","v","w","x","y","z">>

UpperAlpha == <<"A","B","C","D","E","F","G","H","I","J","K","L","M",
                "N","O","P","Q","R","S","T","U","V","W","X","Y","Z">>

IsLowerCh(c) == \E i \in 1..26 : LowerAlpha[i] = c

IsUpperCh(c) == \E i \in 1..26 : UpperAlpha[i] = c

IsCased(c) == IsLowerCh(c) \/ IsUpperCh(c)

lowerCh(c) == IF IsUpperCh(c) THEN LowerAlpha[CHOOSE i \in 1..26 : UpperAlpha[i] = c] ELSE c

upperCh(c) == IF IsLowerCh(c) THEN UpperAlpha[CHOOSE i \in 1..26 : LowerAlpha[i] = c] ELSE c

\* str.lower()
lower(s) == [i \in 1..Len(s) |-> lowerCh(s[i])]

\* str.title(): a cased character is upper-cased when the character before
\* it is not cased, lower-cased otherwise.
title(s) == [i \in 1..Len(s) |->
               IF ~IsCased(s[i]) THEN s[i]
               ELSE IF i > 1 /\ IsCased(s[i-1]) THEN lowerCh(s[i]) ELSE upperCh(s[i])]

\* needle in hay
Contains(needle, hay) ==
  \E i \in 0..(Len(hay) - Len(needle)) : SubSeq(hay, i + 1, i + Len(needle)) = needle

\* s[:n]
Prefix(s, n) == SubSeq(s, 1, IF Len(s) < n THEN Len(s) ELSE n)

\* s[-n:]
Suffix(s, n) == SubSeq(s, IF Len(s) < n THEN 1 ELSE Len(s) - n + 1, Len(s))

RECURSIVE Join(_, _)
\* sep.join(parts)
Join(sep, parts) ==
  IF Len(parts) = 0 THEN <<>>
  ELSE IF Len(parts) = 1 THEN parts[1]
  ELSE parts[1] \o sep \o Join(sep, Tail(parts))

\* the indices i of 1..n with Test[i], in increasing order
SelectIdx(n, Test) ==
  LET S == {i \in 1..n : Test[i]}
  IN [k \in 1..Cardinality(S) |-> CHOOSE x \in S : Cardinality({y \in S : y < x}) = k - 1]

Digits == <<"0","1","2","3","4","5","6","7","8","9">>

RECURSIVE IntToStr(_)
\* str(n) of a natural number
IntToStr(n) == IF n < 10 THEN <<Digits[n + 1]>> ELSE IntToStr(n \div 10) \o <<Digits[(n % 10) + 1]>>

\* ------------------------------------------------------------------------
\* JSON values as the analyzer sees them
\*   content value : [k, s, items]   k in str | list | num | null
\*   list item     : [k, ty, tk, s]  k in dict | str | num
\*                   ty = the block's 'type', "" when the key is missing
\*                   tk = kind of the block's 'text': str | missing | num
\* ------------------------------------------------------------------------
Str(s) == [k |-> "str", s |-> s, items |-> <<>>]

List(items) == [k |-> "list", s |-> <<>>, items |-> items]

Num(s) == [k |-> "num", s |-> s, items |-> <<>>]

Null == [k |-> "null", s |-> <<>>, items |-> <<>>]

Block(ty, tk, s) == [k |-> "dict", ty |-> ty, tk |-> tk, s |-> s]

ItemStr(s) == [k |-> "str", ty |-> "", tk |-> "str", s |-> s]

ItemNum(s) == [k |-> "num", ty |-> "", tk |-> "num", s |-> s]

Q == <<"'">>

\* the characters of a block's 'type' value
TypeChars(ty) ==
  CASE ty = "text" -> <<"t","e","x","t">>
    [] ty = "image" -> <<"i","m","a","g","e">>
    [] ty = "tool_use" -> <<"t","o","o","l","_","u","s","e">>
    [] OTHER -> <<>>

\* repr of a str, of a block's text value
ReprText(it) == IF it.tk = "str" THEN Q \o it.s \o Q ELSE it.s

\* str(item) of one list element
StrItem(it) ==
  IF it.k # "dict" THEN it.s
  ELSE <<"{">>
       \o (IF it.ty = "" THEN <<>>
           ELSE Q \o <<"t","y","p","e">> \o Q \o <<":"," ">> \o Q \o
                TypeChars(it.ty) \o Q)
       \o (IF it.ty # "" /\ it.tk # "missing" THEN <<","," ">> ELSE <<>>)
       \o (IF it.tk = "missing" THEN <<>>
           ELSE Q \o <<"t","e","x","t">> \o Q \o <<":"," ">> \o ReprText(it))
       \o <<"}">>

\* item.get('text', '') of the blocks with item.get('type') == 'text'
TextParts(items) ==
  LET idx == SelectIdx(Len(items), [i \in 1..Len(items) |-> items[i].ty = "text"])
  IN [j \in 1..Len(idx) |-> items[idx[j]]]

\* _extract_text_content that takes a str for a list of characters
_extract_text_content_iterated(content) ==
  IF content.k = "str"
    THEN [raised |-> FALSE, val |-> Join(<<" ">>, [i \in 1..Len(content.s) |-> <<content.s[i]>>])]
  ELSE IF content.k = "list" THEN
    IF Len(content.items) > 0 /\ content.items[1].k = "dict" THEN
      \* item.get on an element that is not a dict: AttributeError;
      \* ' '.join over a text that is not a str: TypeError
      IF \E i \in 1..Len(content.items) : content.items[i].k # "dict"
        THEN [raised |-> TRUE, val |-> <<>>]
      ELSE IF \E i \in 1..Len(TextParts(content.items)) : TextParts(content.items)[i].tk = "num"
        THEN [raised |-> TRUE, val |-> <<>>]
      ELSE [raised |-> FALSE,
            val |-> Join(<<" ">>, [i \in 1..Len(TextParts(content.items)) |->
                                     TextParts(content.items)[i].s])]
    ELSE [raised |-> FALSE,
          val |-> Join(<<" ">>, [i \in 1..Len(content.items) |-> StrItem(content.items[i])])]
  ELSE IF content.k = "null" THEN [raised |-> FALSE, val |-> <<"N","o","n","e">>]
  ELSE [raised |-> FALSE, val |-> content.s]

\* SessionAnalyzer._extract_text_content
_extract_text_content(content) ==
  IF content.k = "str" THEN [raised |-> FALSE, val |-> content.s]
  ELSE IF content.k = "list" THEN
    IF Len(content.items) > 0 /\ content.items[1].k = "dict" THEN
      \* item.get on an element that is not a dict: AttributeError;
      \* ' '.join over a text that is not a str: TypeError
      IF \E i \in 1..Len(content.items) : content.items[i].k # "dict"
        THEN [raised |-> TRUE, val |-> <<>>]
      ELSE IF \E i \in 1..Len(TextParts(content.items)) : TextParts(content.items)[i].tk = "num"
        THEN [raised |-> TRUE, val |-> <<>>]
      ELSE [raised |-> FALSE,
            val |-> Join(<<" ">>, [i \in 1..Len(TextParts(content.items)) |->
                                     TextParts(content.items)[i].s])]
    ELSE [raised |-> FALSE,
          val |-> Join(<<" ">>, [i \in 1..Len(content.items) |-> StrItem(content.items[i])])]
  ELSE IF content.k = "null" THEN [raised |-> FALSE, val |-> <<"N","o","n","e">>]
  ELSE [raised |-> FALSE, val |-> content.s]

\* ------------------------------------------------------------------------
\* Transcript lines, decoded entries and normalized messages
\*   line  : [shape, entry]  shape in blank | garbage | nonobject | object
\*           garbage   : json.loads raises JSONDecodeError
\*           nonobject : json.loads returns a list, a number, a string, null
\*   entry : the decoded object; absent keys carry the .get default
\*   input : [k, hasFP, fp]  k in dict | str | num; fp a content value
\*   timestamp : [k, aware, secs]  k in none | iso | bad
\* ------------------------------------------------------------------------
NoTs == [k |-> "none", aware |-> FALSE, secs |-> 0]

Ts(secs) == [k |-> "iso", aware |-> TRUE, secs |-> secs]

EmptyInput == [k |-> "dict", hasFP |-> FALSE, fp |-> Str(<<>>)]

FileInput(fp) == [k |-> "dict", hasFP |-> TRUE, fp |-> fp]

NoEntry == [type |-> "", hasMessage |-> FALSE, msgIsMap |-> FALSE, content |-> Str(<<>>),
            toolName |-> "", input |-> EmptyInput, output |-> Str(<<>>), isError |-> FALSE,
            timestamp |-> NoTs, uuid |-> 0]

RecordKinds == {"user", "assistant", "tool_use", "tool_result"}

OutputLimit == 500

\* str(entry.get('output', ''))
StrValue(v) == IF v.k = "list" THEN <<"[">> \o Join(<<",", " ">>, [i \in 1..Len(v.items) |->
                                                   IF v.items[i].k = "str"
                                                     THEN Q \o v.items[i].s \o Q
                                                     ELSE StrItem(v.items[i])]) \o <<"]">>
               ELSE IF v.k = "null" THEN <<"N","o","n","e">>
               ELSE v.s

StoredOutput_uncut(output) == StrValue(output)

\* _process_entry, line 97: str(entry.get('output', ''))[:500]
StoredOutput(output) == Prefix(StrValue(output), OutputLimit)

\* _process_entry that keeps a record of any other type as a message
_process_entry_any_type(isObject, entry, msgs) ==
  IF ~isObject THEN [raised |-> TRUE, val |-> msgs]
  ELSE IF entry.type \in {"user", "assistant"} /\ entry.hasMessage THEN
    IF ~entry.msgIsMap THEN [raised |-> TRUE, val |-> msgs]
    ELSE [raised |-> FALSE,
          val |-> Append(msgs, [type |-> entry.type, content |-> entry.content,
                                tool |-> "", input |-> EmptyInput, output |-> <<>>,
                                error |-> FALSE, timestamp |-> entry.timestamp,
                                uuid |-> entry.uuid])]
  ELSE IF entry.type = "tool_use" THEN
    [raised |-> FALSE,
     val |-> Append(msgs, [type |-> "tool_use", content |-> Str(<<>>),
                           tool |-> entry.toolName, input |-> entry.input, output |-> <<>>,
                           error |-> FALSE, timestamp |-> entry.timestamp,
                           uuid |-> entry.uuid])]
  ELSE IF entry.type = "tool_result" THEN
    [raised |-> FALSE,
     val |-> Append(msgs, [type |-> "tool_result", content |-> Str(<<>>),
                           tool |-> entry.toolName, input |-> EmptyInput,
                           output |-> StoredOutput(entry.output),
                           error |-> entry.isError, timestamp |-> entry.timestamp,
                           uuid |-> entry.uuid])]
  ELSE [raised |-> FALSE,
        val |-> Append(msgs, [type |-> entry.type, content |-> Str(<<>>),
                              tool |-> "", input |-> EmptyInput, output |-> <<>>,
                              error |-> FALSE, timestamp |-> entry.timestamp,
                              uuid |-> entry.uuid])]

\* TranscriptParser._process_entry: the messages after the call, or raised
\* (messages untouched) when entry or entry['message'] has no .get
_process_entry(isObject, entry, msgs) ==
  IF ~isObject THEN [raised |-> TRUE, val |-> msgs]
  ELSE IF entry.type \in {"user", "assistant"} /\ entry.hasMessage THEN
    IF ~entry.msgIsMap THEN [raised |-> TRUE, val |-> msgs]
    ELSE [raised |-> FALSE,
          val |-> Append(msgs, [type |-> entry.type, content |-> entry.content,
                                tool |-> "", input |-> EmptyInput, output |-> <<>>,
                                error |-> FALSE, timestamp |-> entry.timestamp,
                                uuid |-> entry.uuid])]
  ELSE IF entry.type = "tool_use" THEN
    [raised |-> FALSE,
     val |-> Append(msgs, [type |-> "tool_use", content |-> Str(<<>>),
                           tool |-> entry.toolName, input |-> entry.input, output |-> <<>>,
                           error |-> FALSE, timestamp |-> entry.timestamp,
                           uuid |-> entry.uuid])]
  ELSE IF entry.type = "tool_result" THEN
    [raised |-> FALSE,
     val |-> Append(msgs, [type |-> "tool_result", content |-> Str(<<>>),
                           tool |-> entry.toolName, input |-> EmptyInput,
                           output |-> StoredOutput(entry.output),
                           error |-> entry.isError, timestamp |-> entry.timestamp,
                           uuid |-> entry.uuid])]
  ELSE [raised |-> FALSE, val |-> msgs]

\* ------------------------------------------------------------------------
\* Context extractor and tool-event message (graphiti_integration.py)
\* ------------------------------------------------------------------------
ContextWindow == 20

ResponseLimit == 500

NoUserRequest == Str(<<"N","o"," ","r","e","c","e","n","t"," ","u","s","e","r"," ","r","e","q","u","e","s","t"," ","f","o","u","n","d">>)

NoResponse == Str(<<"N","o"," ","r","e","c","e","n","t"," ","r","e","s","p","o","n","s","e"," ","f","o","u","n","d">>)

\* Python truthiness of a JSON value
Truthy(v) ==
  CASE v.k = "str" -> v.s # <<>>
    [] v.k = "list" -> v.items # <<>>
    [] v.k = "num" -> v.s # <<"0">>
    [] OTHER -> FALSE

\* v[:n]: defined on str and list, TypeError on anything else
Slice(v, n) ==
  CASE v.k = "str" -> [raised |-> FALSE, val |-> Str(Prefix(v.s, n))]
    [] v.k = "list" -> [raised |-> FALSE, val |-> List(Prefix(v.items, n))]
    [] OTHER -> [raised |-> TRUE, val |-> Null]

RECURSIVE ScanRecent(_, _, _, _)
\* the loop over reversed(recent_messages), from index i down to 1;
\* lu, la are the two captures so far (Null is None)
ScanRecent(recent, i, lu, la) ==
  IF i = 0 \/ (Truthy(lu) /\ Truthy(la)) THEN [raised |-> FALSE, lu |-> lu, la |-> la]
  ELSE IF recent[i].type = "user" /\ ~Truthy(lu)
    THEN ScanRecent(recent, i - 1, recent[i].content, la)
  ELSE IF recent[i].type = "assistant" /\ ~Truthy(la)
    THEN IF Slice(recent[i].content, ResponseLimit).raised
           THEN [raised |-> TRUE, lu |-> lu, la |-> la]
           ELSE ScanRecent(recent, i - 1, lu, Slice(recent[i].content, ResponseLimit).val)
  ELSE ScanRecent(recent, i - 1, lu, la)

CountType(msgs, ty) == Cardinality({i \in 1..Len(msgs) : msgs[i].type = ty})

ErrorContext == [error |-> TRUE, last_user_request |-> Null, last_assistant_response |-> Null,
                 recent_context |-> FALSE, user_message_count |-> 0,
                 assistant_message_count |-> 0, tool_use_count |-> 0]

\* GraphitiIntegration._get_conversation_context, once the transcript is parsed
\* (parseRaised: parse_transcript raised on a path that is not a str)
_get_conversation_context(tp, parseRaised, msgs) ==
  IF tp = "empty" THEN ErrorContext
  ELSE IF parseRaised THEN ErrorContext
  ELSE IF msgs = <<>> THEN ErrorContext
  ELSE LET recent == Suffix(msgs, ContextWindow)
           scan == ScanRecent(recent, Len(recent), Null, Null)
       IN IF scan.raised THEN ErrorContext
          ELSE [error |-> FALSE,
                last_user_request |-> IF Truthy(scan.lu) THEN scan.lu ELSE NoUserRequest,
                last_assistant_response |-> IF Truthy(scan.la) THEN scan.la ELSE NoResponse,
                recent_context |-> TRUE,
                user_message_count |-> CountType(recent, "user"),
                assistant_message_count |-> CountType(recent, "assistant"),
                tool_use_count |-> CountType(recent, "tool_use")]

\* GraphitiIntegration._extract_tool_info: which sentence describes the tool;
\* "bare" is the except branch (tool_input has no .get, prompt has no slice)
_extract_tool_info(tool_name, tool_input) ==
  CASE tool_name = "Read" -> IF tool_input = "str" THEN "bare" ELSE "read file"
    [] tool_name \in {"Write", "Edit", "MultiEdit"} ->
         IF tool_input = "str" THEN "bare" ELSE "modified file"
    [] tool_name = "Bash" -> IF tool_input = "str" THEN "bare" ELSE "executed command"
    [] tool_name = "WebSearch" -> IF tool_input = "str" THEN "bare" ELSE "searched web"
    [] tool_name = "WebFetch" -> IF tool_input = "str" THEN "bare" ELSE "fetched URL"
    [] tool_name = "Task" -> IF tool_input # "dict" THEN "bare" ELSE "created task"
    [] tool_name = "Grep" -> IF tool_input = "str" THEN "bare" ELSE "searched for pattern"
    [] tool_name = "Glob" -> IF tool_input = "str" THEN "bare" ELSE "searched for files"
    [] OTHER -> "used tool"

NoMessage == [kind |-> "none"]

\* GraphitiIntegration._create_contextual_message: the content parts in
\* order (Null: the part is left out) and the metadata
_create_contextual_message(event, ctx) ==
  [kind |-> "tool",
   user_request |-> IF Truthy(ctx.last_user_request) THEN ctx.last_user_request ELSE Null,
   claude_context |-> IF Truthy(ctx.last_assistant_response)
                        THEN ctx.last_assistant_response ELSE Null,
   action |-> _extract_tool_info(event.tool_name, event.tool_input),
   session_context |-> IF ctx.recent_context
                         THEN <<ctx.user_message_count, ctx.assistant_message_count,
                                ctx.tool_use_count>>
                         ELSE <<>>,
   tool_name |-> event.tool_name,
   role |-> "claude_code",
   source_description |-> "Claude Code conversation with context"]

\* ------------------------------------------------------------------------
\* SessionAnalyzer (session_analyzer.py)
\* ------------------------------------------------------------------------
IsSpace(c) == c \in {" ", "\n", "\t"}

\* str.strip()
strip(s) ==
  LET solid == {i \in 1..Len(s) : ~IsSpace(s[i])}
  IN IF solid = {} THEN <<>>
     ELSE SubSeq(s, CHOOSE i \in solid : \A j \in solid : i <= j,
                    CHOOSE i \in solid : \A j \in solid : j <= i)

\* s.split(ch) for a one-character separator
SplitOn(s, ch) ==
  LET seps == SelectIdx(Len(s), [i \in 1..Len(s) |-> s[i] = ch])
  IN [k \in 1..(Len(seps) + 1) |->
        SubSeq(s, IF k = 1 THEN 1 ELSE seps[k - 1] + 1,
                  IF k = Len(seps) + 1 THEN Len(s) ELSE seps[k] - 1)]

\* s.split(): runs of whitespace separate, no empty word
SplitWs(s) ==
  LET starts == SelectIdx(Len(s), [i \in 1..Len(s) |->
                            ~IsSpace(s[i]) /\ (i = 1 \/ IsSpace(s[i - 1]))])
      ends == SelectIdx(Len(s), [i \in 1..Len(s) |->
                          ~IsSpace(s[i]) /\ (i = Len(s) \/ IsSpace(s[i + 1]))])
  IN [k \in 1..Len(starts) |-> SubSeq(s, starts[k], ends[k])]

\* [x for x in seq if Test[i]]
Filter(seq, Test) ==
  LET idx == SelectIdx(Len(seq), Test) IN [j \in 1..Len(idx) |-> seq[idx[j]]]

OfType(msgs, ty) == Filter(msgs, [i \in 1..Len(msgs) |-> msgs[i].type = ty])

\* is some element of the list kws a substring of s
AnyIn(kws, s) == \E i \in 1..Len(kws) : Contains(kws[i], s)

goal_keywords == <<
  <<"h","e","l","p">>, <<"c","r","e","a","t","e">>, <<"b","u","i","l","d">>, <<"i","m","p","l","e","m","e","n","t">>, <<"f","i","x">>, <<"d","e","b","u","g">>, <<"s","e","t","u","p">>,
  <<"i","n","s","t","a","l","l">>, <<"c","o","n","f","i","g","u","r","e">>, <<"o","p","t","i","m","i","z","e">>, <<"r","e","f","a","c","t","o","r">>, <<"u","p","d","a","t","e">>, <<"a","d","d">>,
  <<"r","e","m","o","v","e">>, <<"d","e","p","l","o","y">>, <<"t","e","s","t">>, <<"a","n","a","l","y","z","e">>, <<"u","n","d","e","r","s","t","a","n","d">>, <<"e","x","p","l","a","i","n">> >>

problem_indicators == <<
  <<"e","r","r","o","r">>, <<"i","s","s","u","e">>, <<"p","r","o","b","l","e","m">>, <<"b","u","g">>, <<"f","a","i","l">>, <<"b","r","o","k","e","n">>, <<"w","r","o","n","g">>,
  <<"n","o","t"," ","w","o","r","k","i","n","g">>, <<"d","o","e","s","n","'","t"," ","w","o","r","k">>, <<"c","a","n","'","t">>, <<"u","n","a","b","l","e">>, <<"t","r","o","u","b","l","e">> >>

solution_indicators == <<
  <<"f","i","x","e","d">>, <<"s","o","l","v","e","d">>, <<"w","o","r","k","i","n","g">>, <<"s","u","c","c","e","s","s">>, <<"c","o","m","p","l","e","t","e","d">>, <<"d","o","n","e">>,
  <<"r","e","s","o","l","v","e","d">>, <<"c","o","r","r","e","c","t","e","d">>, <<"u","p","d","a","t","e","d">>, <<"i","m","p","l","e","m","e","n","t","e","d">> >>

NoObjective == <<"N","o"," ","c","l","e","a","r"," ","o","b","j","e","c","t","i","v","e"," ","i","d","e","n","t","i","f","i","e","d">>

ObjectiveError == <<"C","o","u","l","d"," ","n","o","t"," ","d","e","t","e","r","m","i","n","e"," ","o","b","j","e","c","t","i","v","e">>

RECURSIVE EarlyRequests(_, _)
\* the loop of extract_main_objective over user_messages[:3], from index i
EarlyRequests(ums, i) ==
  IF i > Len(ums) THEN [raised |-> FALSE, val |-> <<>>]
  ELSE IF _extract_text_content(ums[i].content).raised THEN [raised |-> TRUE, val |-> <<>>]
  ELSE LET c == strip(_extract_text_content(ums[i].content).val)
           rest == EarlyRequests(ums, i + 1)
       IN IF rest.raised THEN rest
          ELSE [raised |-> FALSE,
                val |-> (IF Len(c) > 10 THEN <<c>> ELSE <<>>) \o rest.val]

\* max(reqs, key=len): the first of the longest
MaxByLen(reqs) ==
  reqs[CHOOSE i \in 1..Len(reqs) :
         /\ \A j \in 1..Len(reqs) : Len(reqs[j]) <= Len(reqs[i])
         /\ \A j \in 1..(i - 1) : Len(reqs[j]) < Len(reqs[i])]

\* extract_main_objective, lines 91-107: the goal read from the main request
GoalFrom(main_request) ==
  LET words == SplitWs(lower(main_request))
      hits == SelectIdx(Len(words),
                        [i \in 1..Len(words) |->
                           \E k \in 1..Len(goal_keywords) : goal_keywords[k] = words[i]])
  IN IF hits # <<>>
       THEN <<"P","r","i","m","a","r","y"," ","g","o","a","l",":"," ">> \o
            Join(<<" ">>, SubSeq(words,
                                 IF hits[1] - 2 < 1 THEN 1 ELSE hits[1] - 2,
                                 IF hits[1] + 7 > Len(words) THEN Len(words)
                                                             ELSE hits[1] + 7))
       ELSE <<"S","e","s","s","i","o","n"," ","f","o","c","u","s",":"," ">> \o Prefix(main_request, 100) \o <<".",".",".">>

\* extract_main_objective, lines 80-84: the texts kept from user_messages[:3]
MainRequests(msgs) == EarlyRequests(Prefix(OfType(Prefix(msgs, 10), "user"), 3), 1)

\* body of SessionAnalyzer.extract_main_objective
ObjectiveBody(msgs) ==
  LET ums == OfType(Prefix(msgs, 10), "user")
      early == MainRequests(msgs)
  IN IF ums = <<>> THEN [raised |-> FALSE, val |-> NoObjective]
     ELSE IF early.raised THEN [raised |-> TRUE, val |-> <<>>]
     ELSE IF early.val = <<>> THEN [raised |-> FALSE, val |-> NoObjective]
     ELSE [raised |-> FALSE, val |-> GoalFrom(MaxByLen(early.val))]

\* SessionAnalyzer.extract_main_objective: [raised, val] as the caller sees it
extract_main_objective(msgs) ==
  IF ObjectiveBody(msgs).raised THEN [raised |-> FALSE, val |-> ObjectiveError]
  ELSE ObjectiveBody(msgs)

WriteTools == {"Write", "Edit", "MultiEdit"}

RECURSIVE ModifiedFilesLoop(_, _, _)
\* the loop of get_modified_files over tool_uses from index i; files is the
\* dict modified_files in insertion order
ModifiedFilesLoop(tus, i, files) ==
  IF i > Len(tus) THEN [raised |-> FALSE, val |-> files]
  ELSE IF tus[i].tool \notin WriteTools THEN ModifiedFilesLoop(tus, i + 1, files)
  ELSE IF tus[i].input.k # "dict" THEN [raised |-> TRUE, val |-> <<>>]
  ELSE LET fp == IF tus[i].input.hasFP THEN tus[i].input.fp ELSE Str(<<>>)
       IN IF ~Truthy(fp) THEN ModifiedFilesLoop(tus, i + 1, files)
          ELSE IF fp.k = "list" THEN [raised |-> TRUE, val |-> <<>>]
          ELSE LET known == \E j \in 1..Len(files) : files[j].file = fp
                   files1 == IF known THEN files
                             ELSE Append(files, [file |-> fp, operations |-> <<>>,
                                                 first_modified |-> tus[i].timestamp,
                                                 last_modified |-> tus[i].timestamp])
               IN ModifiedFilesLoop(tus, i + 1,
                    [j \in 1..Len(files1) |->
                       IF files1[j].file = fp
                         THEN [files1[j] EXCEPT !.operations = Append(@, tus[i].tool),
                                                !.last_modified = tus[i].timestamp]
                         ELSE files1[j]])

\* body of SessionAnalyzer.get_modified_files
ModifiedFilesBody(msgs) == ModifiedFilesLoop(OfType(msgs, "tool_use"), 1, <<>>)

\* get_modified_files without its try/except: the exception reaches the caller
get_modified_files_uncaught(msgs) == ModifiedFilesBody(msgs)

\* SessionAnalyzer.get_modified_files
get_modified_files(msgs) ==
  IF ModifiedFilesBody(msgs).raised THEN [raised |-> FALSE, val |-> <<>>]
  ELSE ModifiedFilesBody(msgs)

RECURSIVE SolutionsLoop(_, _)
\* the loop of identify_solutions over assistant_messages from index i
SolutionsLoop(ams, i) ==
  IF i > Len(ams) THEN [raised |-> FALSE, val |-> <<>>]
  ELSE IF _extract_text_content(ams[i].content).raised THEN [raised |-> TRUE, val |-> <<>>]
  ELSE LET text == _extract_text_content(ams[i].content).val
           rest == SolutionsLoop(ams, i + 1)
       IN IF rest.raised THEN rest
          ELSE [raised |-> FALSE,
                val |-> (IF AnyIn(solution_indicators, lower(text))
                           THEN <<<<"S","o","l","u","t","i","o","n"," ","a","c","h","i","e","v","e","d",":"," ">> \o Prefix(text, 150) \o <<".",".",".">>>>
                           ELSE <<>>) \o rest.val]

\* body of SessionAnalyzer.identify_solutions
SolutionsBody(msgs) ==
  LET ums == OfType(msgs, "user")
      found == SolutionsLoop(OfType(msgs, "assistant"), 1)
      successful == Cardinality({i \in 1..Len(msgs) :
                                   msgs[i].type = "tool_result" /\ ~msgs[i].error})
  IN IF \E i \in 1..Len(ums) : _extract_text_content(ums[i].content).raised
       THEN [raised |-> TRUE, val |-> <<>>]
     ELSE IF found.raised THEN found
     ELSE IF found.val = <<>> /\ successful > 0
       THEN [raised |-> FALSE,
             val |-> <<<<"S","u","c","c","e","s","s","f","u","l","l","y"," ","c","o","m","p","l","e","t","e","d"," ">> \o IntToStr(successful) \o
                       <<" ","t","o","o","l"," ","o","p","e","r","a","t","i","o","n","s">>>>]
     ELSE [raised |-> FALSE, val |-> Prefix(found.val, 5)]

\* SessionAnalyzer.identify_solutions
identify_solutions(msgs) ==
  IF SolutionsBody(msgs).raised THEN [raised |-> FALSE, val |-> <<>>]
  ELSE SolutionsBody(msgs)

decision_keywords == <<
  <<"d","e","c","i","d","e","d"," ","t","o">>, <<"c","h","o","s","e"," ","t","o">>, <<"s","e","l","e","c","t","e","d">>, <<"w","i","l","l"," ","u","s","e">>, <<"g","o","i","n","g"," ","w","i","t","h">>,
  <<"b","e","t","t","e","r"," ","t","o">>, <<"i","n","s","t","e","a","d"," ","o","f">>, <<"a","p","p","r","o","a","c","h">>, <<"s","t","r","a","t","e","g","y">>, <<"p","l","a","n">> >>

learning_keywords == <<
  <<"l","e","a","r","n","e","d">>, <<"d","i","s","c","o","v","e","r","e","d">>, <<"f","o","u","n","d"," ","o","u","t">>, <<"r","e","a","l","i","z","e","d">>, <<"u","n","d","e","r","s","t","o","o","d">>,
  <<"t","u","r","n","s"," ","o","u","t">>, <<"i","t"," ","a","p","p","e","a","r","s">>, <<"t","h","e"," ","i","s","s","u","e"," ","w","a","s">>, <<"t","h","e"," ","s","o","l","u","t","i","o","n"," ","i","s">> >>

follow_up_keywords == <<
  <<"n","e","x","t"," ","s","t","e","p">>, <<"s","h","o","u","l","d">>, <<"n","e","e","d"," ","t","o">>, <<"t","o","d","o">>, <<"l","a","t","e","r">>, <<"f","o","l","l","o","w"," ","u","p">>,
  <<"c","o","n","s","i","d","e","r">>, <<"m","i","g","h","t"," ","w","a","n","t">>, <<"c","o","u","l","d"," ","a","l","s","o">>, <<"f","u","t","u","r","e">>, <<"n","e","x","t"," ","t","i","m","e">> >>

\* the first sentence of content.split('.') that holds kw, stripped
\* (kw is in content.lower() and holds no '.', so there is one)
KeywordSentence(text, kw) ==
  LET sentences == SplitOn(text, ".")
      first == CHOOSE i \in 1..Len(sentences) :
                 /\ Contains(kw, lower(sentences[i]))
                 /\ \A j \in 1..(i - 1) : ~Contains(kw, lower(sentences[j]))
  IN strip(sentences[first])

RECURSIVE KeywordLoop(_, _, _, _, _, _)
\* for keyword in kws (from index k) over one message text; cap = 0: no cap
KeywordLoop(text, kws, k, acc, minLen, cap) ==
  IF k > Len(kws) THEN acc
  ELSE IF ~Contains(kws[k], lower(text)) THEN KeywordLoop(text, kws, k + 1, acc, minLen, cap)
  ELSE LET s == KeywordSentence(text, kws[k])
           acc1 == IF Len(s) > minLen THEN Append(acc, Prefix(s, 200)) ELSE acc
       IN IF cap > 0 /\ Len(acc1) >= cap THEN acc1
          ELSE KeywordLoop(text, kws, k + 1, acc1, minLen, cap)

RECURSIVE SentenceLoop(_, _, _, _, _, _)
\* for msg in assistant messages (from index i): the shared loop of
\* extract_decisions, extract_learnings and identify_follow_ups
SentenceLoop(ams, i, kws, acc, minLen, cap) ==
  IF i > Len(ams) THEN [raised |-> FALSE, val |-> acc]
  ELSE IF _extract_text_content(ams[i].content).raised THEN [raised |-> TRUE, val |-> <<>>]
  ELSE LET acc1 == KeywordLoop(_extract_text_content(ams[i].content).val, kws, 1, acc,
                               minLen, cap)
       IN IF cap > 0 /\ Len(acc1) >= cap THEN [raised |-> FALSE, val |-> acc1]
          ELSE SentenceLoop(ams, i + 1, kws, acc1, minLen, cap)

\* body of SessionAnalyzer.extract_decisions
DecisionsBody(msgs) == SentenceLoop(OfType(msgs, "assistant"), 1, decision_keywords, <<>>, 20, 5)

\* SessionAnalyzer.extract_decisions
extract_decisions(msgs) ==
  IF DecisionsBody(msgs).raised THEN [raised |-> FALSE, val |-> <<>>]
  ELSE DecisionsBody(msgs)

\* extract_learnings without the two tests of len(learnings) >= 3
LearningsBody_uncapped(msgs) ==
  SentenceLoop(OfType(msgs, "assistant"), 1, learning_keywords, <<>>, 15, 0)

\* body of SessionAnalyzer.extract_learnings
LearningsBody(msgs) == SentenceLoop(OfType(msgs, "assistant"), 1, learning_keywords, <<>>, 15, 3)

\* SessionAnalyzer.extract_learnings
extract_learnings(msgs) ==
  IF LearningsBody(msgs).raised THEN [raised |-> FALSE, val |-> <<>>]
  ELSE LearningsBody(msgs)

\* body of SessionAnalyzer.identify_follow_ups
FollowUpsBody(msgs) ==
  LET found == SentenceLoop(Suffix(OfType(msgs, "assistant"), 5), 1, follow_up_keywords,
                            <<>>, 15, 0)
      failed == Cardinality({i \in 1..Len(msgs) : msgs[i].type = "tool_result" /\ msgs[i].error})
  IN IF found.raised THEN found
     ELSE [raised |-> FALSE,
           val |-> Prefix(found.val \o
                          (IF failed > 0
                             THEN <<<<"R","e","v","i","e","w"," ">> \o IntToStr(failed) \o <<" ","f","a","i","l","e","d"," ","o","p","e","r","a","t","i","o","n","s">>>>
                             ELSE <<>>), 5)]

\* SessionAnalyzer.identify_follow_ups
identify_follow_ups(msgs) ==
  IF FollowUpsBody(msgs).raised THEN [raised |-> FALSE, val |-> <<>>]
  ELSE FollowUpsBody(msgs)

\* characters in code-point order, for the comparison of str values
Ascii == <<"\t", "\n", " ", "#", "'", "+", ",", "-", ".", "/",
           "0","1","2","3","4","5","6","7","8","9", ":",
           "A","B","C","D","E","F","G","H","I","J","K","L","M",
           "N","O","P","Q","R","S","T","U","V","W","X","Y","Z", "[", "]", "_",
           "a","b","c","d","e","f","g","h","i","j","k","l","m",
           "n","o","p","q","r","s","t","u","v","w","x","y","z", "{", "}">>

Ord(c) == CHOOSE i \in 1..Len(Ascii) : Ascii[i] = c

\* a < b for str
StrLess(a, b) ==
  \/ Len(a) < Len(b) /\ SubSeq(b, 1, Len(a)) = a
  \/ \E i \in 1..(IF Len(a) < Len(b) THEN Len(a) ELSE Len(b)) :
       /\ SubSeq(a, 1, i - 1) = SubSeq(b, 1, i - 1)
       /\ Ord(a[i]) < Ord(b[i])

RECURSIVE Sorted(_)
\* sorted(list(S)) for a set of str
Sorted(S) ==
  IF S = {} THEN <<>>
  ELSE LET m == CHOOSE x \in S : \A y \in S : x = y \/ StrLess(x, y)
       IN <<m>> \o Sorted(S \ {m})

\* tech_patterns, the five lists in order
tech_patterns == <<
  <<"p","y","t","h","o","n">>, <<"j","a","v","a","s","c","r","i","p","t">>, <<"t","y","p","e","s","c","r","i","p","t">>, <<"j","a","v","a">>, <<"g","o">>, <<"r","u","s","t">>, <<"c","+","+">>, <<"c","#">>,
  <<"p","h","p">>, <<"r","u","b","y">>,
  <<"r","e","a","c","t">>, <<"v","u","e">>, <<"a","n","g","u","l","a","r">>, <<"d","j","a","n","g","o">>, <<"f","l","a","s","k">>, <<"e","x","p","r","e","s","s">>, <<"f","a","s","t","a","p","i">>,
  <<"s","p","r","i","n","g">>,
  <<"d","o","c","k","e","r">>, <<"k","u","b","e","r","n","e","t","e","s">>, <<"g","i","t">>, <<"n","p","m">>, <<"p","i","p">>, <<"y","a","r","n">>, <<"w","e","b","p","a","c","k">>, <<"b","a","b","e","l">>,
  <<"p","o","s","t","g","r","e","s">>, <<"m","y","s","q","l">>, <<"m","o","n","g","o","d","b">>, <<"r","e","d","i","s">>, <<"e","l","a","s","t","i","c","s","e","a","r","c","h">>, <<"s","q","l","i","t","e">>,
  <<"a","w","s">>, <<"a","z","u","r","e">>, <<"g","c","p">>, <<"h","e","r","o","k","u">>, <<"v","e","r","c","e","l">>, <<"n","e","t","l","i","f","y">> >>

\* the if/elif chain over the lower-cased file_path
ExtensionLanguage(file_path) ==
  IF Contains(<<".","p","y">>, file_path) THEN {<<"P","y","t","h","o","n">>}
  ELSE IF Contains(<<".","j","s">>, file_path) THEN {<<"J","a","v","a","S","c","r","i","p","t">>}
  ELSE IF Contains(<<".","t","s">>, file_path) THEN {<<"T","y","p","e","S","c","r","i","p","t">>}
  ELSE IF Contains(<<".","j","a","v","a">>, file_path) THEN {<<"J","a","v","a">>}
  ELSE IF Contains(<<".","g","o">>, file_path) THEN {<<"G","o">>}
  ELSE {}

\* body of SessionAnalyzer.identify_technologies
TechnologiesBody(msgs) ==
  LET talk == Filter(msgs, [i \in 1..Len(msgs) |-> msgs[i].type \in {"user", "assistant"}])
      tus == OfType(msgs, "tool_use")
  IN IF \E i \in 1..Len(talk) : _extract_text_content(talk[i].content).raised
       THEN [raised |-> TRUE, val |-> <<>>]
     \* 'file_path' in tool_input: TypeError on a number; .lower(): AttributeError
     \* on a file_path that is not a str
     ELSE IF \E i \in 1..Len(tus) :
               \/ tus[i].input.k = "num"
               \/ tus[i].input.k = "dict" /\ tus[i].input.hasFP /\ tus[i].input.fp.k # "str"
       THEN [raised |-> TRUE, val |-> <<>>]
     ELSE LET all_content == lower(Join(<<" ">>,
                                [i \in 1..Len(talk) |-> _extract_text_content(talk[i].content).val]))
              fromFiles == UNION {ExtensionLanguage(lower(tus[i].input.fp.s)) :
                                    i \in {j \in 1..Len(tus) :
                                             tus[j].input.k = "dict" /\ tus[j].input.hasFP}}
              fromText == {title(tech_patterns[i]) :
                             i \in {j \in 1..Len(tech_patterns) :
                                      Contains(tech_patterns[j], all_content)}}
          IN [raised |-> FALSE, val |-> Sorted(fromFiles \cup fromText)]

\* SessionAnalyzer.identify_technologies
identify_technologies(msgs) ==
  IF TechnologiesBody(msgs).raised THEN [raised |-> FALSE, val |-> <<>>]
  ELSE TechnologiesBody(msgs)

\* num / den rounded to the nearest integer, ties to even (den > 0, num >= 0)
RoundDiv(num, den) ==
  LET q == num \div den
      r == num % den
  IN IF 2 * r > den \/ (2 * r = den /\ q % 2 = 1) THEN q + 1 ELSE q

\* f"{x:.1f}" of x = tenths / 10
FormatTenths(tenths) ==
  LET a == IF tenths < 0 THEN -tenths ELSE tenths
  IN (IF tenths < 0 THEN <<"-">> ELSE <<>>) \o IntToStr(a \div 10) \o <<".">> \o IntToStr(a % 10)

\* session_duration as the time between the earlier and the later of the two
SessionDuration_chronological(msgs) ==
  LET stamped == Filter(msgs, [i \in 1..Len(msgs) |-> msgs[i].timestamp.k # "none"])
      start == stamped[1].timestamp
      end == stamped[Len(stamped)].timestamp
      delta == IF end.secs < start.secs THEN start.secs - end.secs ELSE end.secs - start.secs
  IN IF Len(stamped) < 2 THEN <<"U","n","k","n","o","w","n">>
     \* fromisoformat raises on a bad timestamp, the subtraction raises when
     \* only one of the two carries an offset: bare except, "Unknown" stays
     ELSE IF start.k = "bad" \/ end.k = "bad" \/ start.aware # end.aware THEN <<"U","n","k","n","o","w","n">>
     \* "{:.1f}" keeps the sign of a negative value that rounds to zero; the
     \* quotient is exact in binary for the multiples of 15 seconds
     ELSE (IF delta < 0 THEN <<"-">> ELSE <<>>) \o
          FormatTenths(RoundDiv((IF delta < 0 THEN -delta ELSE delta) * 10, 60)) \o
          <<" ","m","i","n","u","t","e","s">>

\* the session_duration of calculate_metrics
SessionDuration(msgs) ==
  LET stamped == Filter(msgs, [i \in 1..Len(msgs) |-> msgs[i].timestamp.k # "none"])
      start == stamped[1].timestamp
      end == stamped[Len(stamped)].timestamp
      delta == end.secs - start.secs
  IN IF Len(stamped) < 2 THEN <<"U","n","k","n","o","w","n">>
     \* fromisoformat raises on a bad timestamp, the subtraction raises when
     \* only one of the two carries an offset: bare except, "Unknown" stays
     ELSE IF start.k = "bad" \/ end.k = "bad" \/ start.aware # end.aware THEN <<"U","n","k","n","o","w","n">>
     \* "{:.1f}" keeps the sign of a negative value that rounds to zero; the
     \* quotient is exact in binary for the multiples of 15 seconds
     ELSE (IF delta < 0 THEN <<"-">> ELSE <<>>) \o
          FormatTenths(RoundDiv((IF delta < 0 THEN -delta ELSE delta) * 10, 60)) \o
          <<" ","m","i","n","u","t","e","s">>

\* success_rate without the test on tool_results: the rate of no result at all
success_rate_unguarded(successful, total) ==
  FormatTenths(RoundDiv(successful * 1000, IF total > 1 THEN total ELSE 1)) \o <<"%">>

\* success_rate cut to one decimal instead of rounded
success_rate_truncated(successful, total) ==
  IF total > 0
    THEN FormatTenths((successful * 1000) \div (IF total > 1 THEN total ELSE 1)) \o <<"%">>
    ELSE <<"N","/","A">>

\* the 'success_rate' of calculate_metrics, line 300: successful results
\* over max(results, 1), times 100, as "{:.1f}%"
success_rate(successful, total) ==
  IF total > 0
    THEN FormatTenths(RoundDiv(successful * 1000, IF total > 1 THEN total ELSE 1)) \o <<"%">>
    ELSE <<"N","/","A">>

\* SessionAnalyzer.calculate_metrics
calculate_metrics(msgs) ==
  LET results == OfType(msgs, "tool_result")
      successful == Cardinality({i \in 1..Len(results) : ~results[i].error})
      failed == Cardinality({i \in 1..Len(results) : results[i].error})
  IN [raised |-> FALSE,
      val |-> [total_messages |-> Len(msgs),
               user_messages |-> CountType(msgs, "user"),
               assistant_messages |-> CountType(msgs, "assistant"),
               tools_used |-> CountType(msgs, "tool_use"),
               successful_operations |-> successful,
               failed_operations |-> failed,
               success_rate |-> success_rate(successful, Len(results)),
               session_duration |-> SessionDuration(msgs)]]

FacetKeys == {"session_goal", "files_modified", "problems_solved", "key_decisions",
              "technologies_used", "session_metrics", "learning_outcomes", "follow_up_items"}

NoAnalysis == [keys |-> {}]

\* SessionAnalyzer.analyze_session
analyze_session(msgs) ==
  IF \/ extract_main_objective(msgs).raised \/ get_modified_files(msgs).raised
     \/ identify_solutions(msgs).raised \/ extract_decisions(msgs).raised
     \/ identify_technologies(msgs).raised \/ calculate_metrics(msgs).raised
     \/ extract_learnings(msgs).raised \/ identify_follow_ups(msgs).raised
    THEN [keys |-> {"error"}]
    ELSE [keys |-> FacetKeys,
          session_goal |-> extract_main_objective(msgs).val,
          files_modified |-> get_modified_files(msgs).val,
          problems_solved |-> identify_solutions(msgs).val,
          key_decisions |-> extract_decisions(msgs).val,
          technologies_used |-> identify_technologies(msgs).val,
          session_metrics |-> calculate_metrics(msgs).val,
          learning_outcomes |-> extract_learnings(msgs).val,
          follow_up_items |-> identify_follow_ups(msgs).val]

\* ------------------------------------------------------------------------
\* Summary formatter (graphiti_integration.py); a character outside ASCII
\* is one element named by its code point
\* ------------------------------------------------------------------------
Bullet == <<" "," ">> \o <<"U+2022">> \o <<" ">>

\* the characters of a tool name
ToolChars(name) ==
  CASE name = "Write" -> <<"W","r","i","t","e">>
    [] name = "Edit" -> <<"E","d","i","t">>
    [] name = "MultiEdit" -> <<"M","u","l","t","i","E","d","i","t">>
    [] name = "Read" -> <<"R","e","a","d">>
    [] name = "Bash" -> <<"B","a","s","h">>
    [] name = "Task" -> <<"T","a","s","k">>
    [] OTHER -> <<>>

\* ", ".join(set(operations)): the distinct names, in the iteration order of
\* the set, which the str hash seed of the process decides (hashOrder)
JoinOperations(operations, hashOrder) ==
  LET present == Filter(hashOrder, [i \in 1..Len(hashOrder) |->
                                      \E j \in 1..Len(operations) : operations[j] = hashOrder[i]])
  IN Join(<<","," ">>, [i \in 1..Len(present) |-> ToolChars(present[i])])

\* the line for the files left out, written as soon as 5 files are listed
MoreFiles_from_five(files) ==
  IF Len(files) >= 5
    THEN << <<" "," ",".",".","."," ","a","n","d"," ">> \o IntToStr(Len(files) - 5) \o <<" ","m","o","r","e"," ","f","i","l","e","s">> >>
    ELSE <<>>

\* _create_session_summary, lines 439-440: the line for the files left out
MoreFiles(files) ==
  IF Len(files) > 5
    THEN << <<" "," ",".",".","."," ","a","n","d"," ">> \o IntToStr(Len(files) - 5) \o <<" ","m","o","r","e"," ","f","i","l","e","s">> >>
    ELSE <<>>

\* summary_parts of _create_session_summary, one element per line
SummaryParts(analysis, session_id, message_count, hashOrder) ==
  LET has(key) == key \in analysis.keys
      files == IF has("files_modified") THEN analysis.files_modified ELSE <<>>
      problems == IF has("problems_solved") THEN analysis.problems_solved ELSE <<>>
      decisions == IF has("key_decisions") THEN analysis.key_decisions ELSE <<>>
      technologies == IF has("technologies_used") THEN analysis.technologies_used ELSE <<>>
      learnings == IF has("learning_outcomes") THEN analysis.learning_outcomes ELSE <<>>
      follow_ups == IF has("follow_up_items") THEN analysis.follow_up_items ELSE <<>>
      bullets(items) == [i \in 1..Len(items) |-> Bullet \o items[i]]
  IN <<<<"=","=","="," ","S","E","S","S","I","O","N"," ","S","U","M","M","A","R","Y"," ","=","=","=">>,
       <<"S","e","s","s","i","o","n"," ","I","D",":"," ">> \o session_id,
       <<"T","o","t","a","l"," ","M","e","s","s","a","g","e","s",":"," ">> \o IntToStr(message_count),
       <<>> >>
     \o (IF has("session_goal") /\ analysis.session_goal # <<>>
           THEN << <<"U+1F3AF">> \o <<" ","S","E","S","S","I","O","N"," ","G","O","A","L",":">>, analysis.session_goal, <<>> >>
           ELSE <<>>)
     \o (IF files # <<>>
           THEN << <<"U+1F4C1">> \o <<" ","F","I","L","E","S"," ","M","O","D","I","F","I","E","D",":">>,
                   <<"T","o","t","a","l"," ","f","i","l","e","s",":"," ">> \o IntToStr(Len(files)) >>
                \o [i \in 1..Len(Prefix(files, 5)) |->
                      Bullet \o files[i].file.s \o <<" ","(">> \o
                      JoinOperations(files[i].operations, hashOrder) \o <<")">>]
                \o MoreFiles(files)
                \o << <<>> >>
           ELSE <<>>)
     \o (IF problems # <<>>
           THEN << <<"U+2705">> \o <<" ","P","R","O","B","L","E","M","S"," ","S","O","L","V","E","D",":">> >> \o bullets(Prefix(problems, 3))
                \o << <<>> >>
           ELSE <<>>)
     \o (IF decisions # <<>>
           THEN << <<"U+1F504">> \o <<" ","K","E","Y"," ","D","E","C","I","S","I","O","N","S",":">> >> \o bullets(Prefix(decisions, 3))
                \o << <<>> >>
           ELSE <<>>)
     \o (IF technologies # <<>>
           THEN << <<"U+1F6E0", "U+FE0F">> \o <<" ","T","E","C","H","N","O","L","O","G","I","E","S"," ","U","S","E","D",":">>,
                   <<" "," ">> \o Join(<<","," ">>, technologies), <<>> >>
           ELSE <<>>)
     \* calculate_metrics returns a dict with eight keys, never an empty one
     \o (IF has("session_metrics")
           THEN << <<"U+1F4CA">> \o <<" ","S","E","S","S","I","O","N"," ","M","E","T","R","I","C","S",":">>,
                   <<" "," ","D","u","r","a","t","i","o","n",":"," ">> \o analysis.session_metrics.session_duration,
                   <<" "," ","T","o","o","l","s"," ","u","s","e","d",":"," ">> \o IntToStr(analysis.session_metrics.tools_used),
                   <<" "," ","S","u","c","c","e","s","s"," ","r","a","t","e",":"," ">> \o analysis.session_metrics.success_rate, <<>> >>
           ELSE <<>>)
     \o (IF learnings # <<>>
           THEN << <<"U+1F4A1">> \o <<" ","K","E","Y"," ","L","E","A","R","N","I","N","G","S",":">> >> \o bullets(learnings) \o << <<>> >>
           ELSE <<>>)
     \o (IF follow_ups # <<>>
           THEN << <<"U+1F51C">> \o <<" ","F","O","L","L","O","W","-","U","P"," ","I","T","E","M","S",":">> >> \o bullets(follow_ups) \o << <<>> >>
           ELSE <<>>)

\* GraphitiIntegration._create_session_summary
_create_session_summary(analysis, session_id, message_count, hashOrder) ==
  Join(<<"\n">>, SummaryParts(analysis, session_id, message_count, hashOrder))

\* ------------------------------------------------------------------------
\* State
\* ------------------------------------------------------------------------
VARIABLES
  stdin,       \* the text on standard input: [decodes, isObject, event]
  fs,          \* the transcript file: [state, lines]
  pc,          \* position of the process
  event_data,  \* main: the decoded event
  messages,    \* parse_transcript: the list it fills; the analyzer's argument
  lineNo,      \* parse_transcript: index of the next line of the file
  context,     \* process_tool_event: conversation_context
  message,     \* the record handed to _send_to_graphiti
  posts,       \* the HTTP requests made, in order: [endpoint, outcome]
  reads,       \* number of times the transcript was looked up
  log,         \* the log records written, in order
  exit_code,   \* exit status of the process, NotExited while it runs
  analysis,    \* analyze_session: the report under construction / returned
  content,     \* _extract_text_content: the argument
  flat         \* _extract_text_content: the outcome [raised, val]

vars == <<stdin, fs, pc, event_data, messages, lineNo, context, message, posts, reads,
          log, exit_code, analysis, content, flat>>

NotExited == -1

NoEvent == [hook_event_name |-> "", event |-> "", tool_name |-> "", tool_input |-> "dict",
            transcript_path |-> "empty", session_id |-> <<>>]

NoFile == [state |-> "missing", lines |-> <<>>]

NoFlat == [raised |-> FALSE, val |-> <<>>]

\* ------------------------------------------------------------------------
\* main and the three handlers (graphiti_integration.py)
\* ------------------------------------------------------------------------
\* main, lines 511-517 and the except of 530-532: read and decode the event,
\* read its discriminator
main_read_event ==
  /\ pc = "main"
  /\ IF stdin.decodes /\ stdin.isObject
       THEN /\ event_data' = stdin.event
            /\ pc' = "dispatch"
            /\ UNCHANGED <<log, exit_code>>
       \* json.loads raises, or event_data.get raises AttributeError
       ELSE /\ log' = Append(log, "error: Hook error")
            /\ exit_code' = 1
            /\ pc' = "done"
            /\ UNCHANGED event_data
  /\ UNCHANGED <<stdin, fs, messages, lineNo, context, message, posts, reads, analysis,
                 content, flat>>

\* main_dispatch reading the kind under 'event' when 'hook_event_name' is absent
main_dispatch_event_key ==
  /\ pc = "dispatch"
  /\ LET kind == IF event_data.hook_event_name = "" THEN event_data.event
                 ELSE event_data.hook_event_name
     IN IF kind = "PostToolUse" THEN pc' = "process_tool_event" /\ UNCHANGED exit_code
        ELSE IF kind = "Notification" THEN pc' = "process_notification" /\ UNCHANGED exit_code
        ELSE IF kind = "Stop" THEN pc' = "process_stop_event" /\ UNCHANGED exit_code
        ELSE pc' = "done" /\ exit_code' = 0
  /\ UNCHANGED <<stdin, fs, event_data, messages, lineNo, context, message, posts, reads, log,
                 analysis, content, flat>>

\* main, lines 519-528: route on hook_event_name
main_dispatch ==
  /\ pc = "dispatch"
  /\ IF event_data.hook_event_name = "PostToolUse" THEN pc' = "process_tool_event" /\ UNCHANGED exit_code
     ELSE IF event_data.hook_event_name = "Notification"
       THEN pc' = "process_notification" /\ UNCHANGED exit_code
     ELSE IF event_data.hook_event_name = "Stop"
       THEN pc' = "process_stop_event" /\ UNCHANGED exit_code
     ELSE pc' = "done" /\ exit_code' = 0
  /\ UNCHANGED <<stdin, fs, event_data, messages, lineNo, context, message, posts, reads, log,
                 analysis, content, flat>>

\* process_tool_event with a skip list that lacks exit_plan_mode
process_tool_event_short_list ==
  /\ pc = "process_tool_event"
  /\ IF event_data.tool_name \in {"TodoWrite"}
       THEN pc' = "done" /\ exit_code' = 0 /\ UNCHANGED <<context, log>>
     ELSE IF event_data.transcript_path = "empty"
       THEN /\ context' = _get_conversation_context("empty", FALSE, <<>>)
            /\ pc' = "create_message"
            /\ UNCHANGED <<exit_code, log>>
     ELSE IF event_data.transcript_path = "nonstr"
       THEN /\ context' = _get_conversation_context("nonstr", TRUE, <<>>)
            /\ log' = Append(log, "error: Error getting conversation context")
            /\ pc' = "create_message"
            /\ UNCHANGED exit_code
     ELSE pc' = "parse_transcript" /\ UNCHANGED <<context, exit_code, log>>
  /\ UNCHANGED <<stdin, fs, event_data, messages, lineNo, message, posts, reads, analysis,
                 content, flat>>

\* process_tool_event, lines 113-130, up to the call of parse_transcript
\* inside _get_conversation_context (lines 149-154)
process_tool_event ==
  /\ pc = "process_tool_event"
  /\ IF event_data.tool_name \in {"TodoWrite", "exit_plan_mode"}
       THEN pc' = "done" /\ exit_code' = 0 /\ UNCHANGED <<context, log>>
     ELSE IF event_data.transcript_path = "empty"
       THEN /\ context' = _get_conversation_context("empty", FALSE, <<>>)
            /\ pc' = "create_message"
            /\ UNCHANGED <<exit_code, log>>
     \* os.path.expanduser raises TypeError on a path that is not a str
     ELSE IF event_data.transcript_path = "nonstr"
       THEN /\ context' = _get_conversation_context("nonstr", TRUE, <<>>)
            /\ log' = Append(log, "error: Error getting conversation context")
            /\ pc' = "create_message"
            /\ UNCHANGED exit_code
     ELSE pc' = "parse_transcript" /\ UNCHANGED <<context, exit_code, log>>
  /\ UNCHANGED <<stdin, fs, event_data, messages, lineNo, message, posts, reads, analysis,
                 content, flat>>

\* parse_transcript, lines 42-50: look the file up and open it
parse_open ==
  /\ pc = "parse_transcript"
  /\ reads' = reads + 1
  /\ messages' = <<>>
  /\ IF fs.state = "missing"
       THEN /\ log' = Append(log, "warning: Transcript file not found")
            /\ pc' = "parsed"
            /\ UNCHANGED lineNo
     ELSE IF fs.state = "unreadable"
       THEN /\ log' = Append(log, "error: Error reading transcript")
            /\ pc' = "parsed"
            /\ UNCHANGED lineNo
     ELSE pc' = "parse_line" /\ lineNo' = 1 /\ UNCHANGED log
  /\ UNCHANGED <<stdin, fs, event_data, context, message, posts, exit_code, analysis,
                 content, flat>>

\* parse_transcript, lines 51-62: one turn of the loop over the lines, or
\* the return at the end of the file
parse_line ==
  /\ pc = "parse_line"
  /\ IF lineNo > Len(fs.lines)
       THEN pc' = "parsed" /\ UNCHANGED <<messages, lineNo, log>>
     ELSE LET line == fs.lines[lineNo]
              step == _process_entry(line.shape = "object", line.entry, messages)
          IN IF line.shape \in {"blank", "garbage"}
               THEN lineNo' = lineNo + 1 /\ UNCHANGED <<messages, pc, log>>
             \* an exception that is not JSONDecodeError leaves the loop
             ELSE IF step.raised
               THEN /\ log' = Append(log, "error: Error reading transcript")
                    /\ pc' = "parsed"
                    /\ UNCHANGED <<messages, lineNo>>
             ELSE /\ messages' = step.val
                  /\ lineNo' = lineNo + 1
                  /\ UNCHANGED <<pc, log>>
  /\ UNCHANGED <<stdin, fs, event_data, context, message, posts, reads, exit_code, analysis,
                 content, flat>>

\* _get_conversation_context, lines 156-193, on the parsed messages
tool_context ==
  /\ pc = "parsed"
  /\ event_data.hook_event_name = "PostToolUse"
  /\ LET ctx == _get_conversation_context("path", FALSE, messages)
     IN /\ context' = ctx
        \* the except of line 191: content[:500] raised
        /\ log' = IF messages # <<>> /\ ctx.error
                    THEN Append(log, "error: Error getting conversation context")
                    ELSE log
  /\ pc' = "create_message"
  /\ UNCHANGED <<stdin, fs, event_data, messages, lineNo, message, posts, reads, exit_code,
                 analysis, content, flat>>

\* process_tool_event, lines 132-141: build the message; send it if there is one
create_message ==
  /\ pc = "create_message"
  /\ LET built == _create_contextual_message(event_data, context)
     IN /\ message' = built
        /\ IF built.kind # "none"
             THEN pc' = "send" /\ UNCHANGED exit_code
             ELSE pc' = "done" /\ exit_code' = 0
  /\ UNCHANGED <<stdin, fs, event_data, messages, lineNo, context, posts, reads, log,
                 analysis, content, flat>>

\* process_notification, lines 336-344, up to the call of parse_transcript
process_notification ==
  /\ pc = "process_notification"
  /\ IF event_data.transcript_path = "empty"
       THEN pc' = "parsed" /\ UNCHANGED <<exit_code, log>>
     \* os.path.expanduser raises TypeError: the except of line 362
     ELSE IF event_data.transcript_path = "nonstr"
       THEN /\ log' = Append(log, "error: Error processing notification")
            /\ pc' = "done"
            /\ exit_code' = 0
     ELSE pc' = "parse_transcript" /\ UNCHANGED <<exit_code, log>>
  /\ UNCHANGED <<stdin, fs, event_data, messages, lineNo, context, message, posts, reads,
                 analysis, content, flat>>

Unknown == -1

\* process_notification, lines 345-360: the notification message
notification_message ==
  /\ pc = "parsed"
  /\ event_data.hook_event_name = "Notification"
  /\ message' = [kind |-> "notification",
                 message_count |-> IF messages # <<>> THEN Len(messages) ELSE Unknown,
                 role |-> "claude_code",
                 source_description |-> "Claude Code notification"]
  /\ pc' = "send"
  /\ UNCHANGED <<stdin, fs, event_data, messages, lineNo, context, posts, reads, log,
                 exit_code, analysis, content, flat>>

\* process_stop_event without its try/except: the TypeError of expanduser
\* reaches the except of main
process_stop_event_uncaught ==
  /\ pc = "process_stop_event"
  /\ IF event_data.transcript_path = "empty"
       THEN /\ log' = Append(log, "warning: No transcript path for session summary")
            /\ pc' = "done"
            /\ exit_code' = 0
     ELSE IF event_data.transcript_path = "nonstr"
       THEN /\ log' = Append(log, "error: Hook error")
            /\ pc' = "done"
            /\ exit_code' = 1
     ELSE pc' = "parse_transcript" /\ UNCHANGED <<exit_code, log>>
  /\ UNCHANGED <<stdin, fs, event_data, messages, lineNo, context, message, posts, reads,
                 analysis, content, flat>>

\* process_stop_event, lines 367-377, up to the call of parse_transcript
process_stop_event ==
  /\ pc = "process_stop_event"
  /\ IF event_data.transcript_path = "empty"
       THEN /\ log' = Append(log, "warning: No transcript path for session summary")
            /\ pc' = "done"
            /\ exit_code' = 0
     \* os.path.expanduser raises TypeError: the except of line 408
     ELSE IF event_data.transcript_path = "nonstr"
       THEN /\ log' = Append(log, "error: Error processing stop event")
            /\ pc' = "done"
            /\ exit_code' = 0
     ELSE pc' = "parse_transcript" /\ UNCHANGED <<exit_code, log>>
  /\ UNCHANGED <<stdin, fs, event_data, messages, lineNo, context, message, posts, reads,
                 analysis, content, flat>>

HashOrders == {<<"Write", "Edit", "MultiEdit">>, <<"Write", "MultiEdit", "Edit">>,
               <<"Edit", "Write", "MultiEdit">>, <<"Edit", "MultiEdit", "Write">>,
               <<"MultiEdit", "Write", "Edit">>, <<"MultiEdit", "Edit", "Write">>}

\* process_stop_event, lines 378-383: give up on an empty transcript, else
\* analyse the session
stop_analyze ==
  /\ pc = "parsed"
  /\ event_data.hook_event_name = "Stop"
  /\ IF messages = <<>>
       THEN /\ log' = Append(log, "warning: No messages found for session summary")
            /\ pc' = "done"
            /\ exit_code' = 0
            /\ UNCHANGED analysis
       ELSE /\ analysis' = analyze_session(messages)
            /\ pc' = "summarize"
            /\ UNCHANGED <<log, exit_code>>
  /\ UNCHANGED <<stdin, fs, event_data, messages, lineNo, context, message, posts, reads,
                 content, flat>>

\* process_stop_event, lines 385-403: format the report, build the summary message
stop_summarize ==
  /\ pc = "summarize"
  /\ \E hashOrder \in HashOrders :
       message' = [kind |-> "summary",
                   content |-> _create_session_summary(analysis, event_data.session_id,
                                                       Len(messages), hashOrder),
                   role |-> "claude_session_summarizer",
                   source_description |-> "Claude Code session summary with insights"]
  /\ pc' = "send"
  /\ UNCHANGED <<stdin, fs, event_data, messages, lineNo, context, posts, reads, log,
                 exit_code, analysis, content, flat>>

\* what session.post can come to: a status code, a timeout, another exception
Outcomes == {"200", "202", "500", "timeout", "connection error"}

Delivered(outcome) == outcome \in {"200", "202"}

\* _send_to_graphiti, lines 299-332: one POST to /messages, the outcome logged
send ==
  /\ pc = "send"
  /\ \E outcome \in Outcomes :
       /\ posts' = Append(posts, [endpoint |-> "/messages", payload |-> message,
                                  outcome |-> outcome])
       /\ log' = Append(log, CASE Delivered(outcome) -> "info: Successfully sent to Graphiti"
                               [] outcome = "timeout" -> "error: Timeout sending to Graphiti"
                               [] outcome = "connection error" -> "error: Error sending to Graphiti"
                               [] OTHER -> "error: Failed to send to Graphiti")
  /\ pc' = "sent"
  /\ UNCHANGED <<stdin, fs, event_data, messages, lineNo, context, message, reads, exit_code,
                 analysis, content, flat>>

\* handler_return that sends once more after a failed attempt
handler_return_retry ==
  /\ pc = "sent"
  /\ log' = IF event_data.hook_event_name = "Stop"
              THEN Append(log, "info: Session summary sent")
              ELSE log
  /\ IF Len(posts) < 2 /\ ~Delivered(posts[Len(posts)].outcome)
       THEN pc' = "send" /\ UNCHANGED exit_code
       ELSE pc' = "done" /\ exit_code' = 0
  /\ UNCHANGED <<stdin, fs, event_data, messages, lineNo, context, message, posts, reads,
                 analysis, content, flat>>

\* the return of the handler to main (line 406 for a Stop event), and the end
\* of main: exit status 0
handler_return ==
  /\ pc = "sent"
  /\ log' = IF event_data.hook_event_name = "Stop"
              THEN Append(log, "info: Session summary sent")
              ELSE log
  /\ pc' = "done"
  /\ exit_code' = 0
  /\ UNCHANGED <<stdin, fs, event_data, messages, lineNo, context, message, posts, reads,
                 analysis, content, flat>>

\* ------------------------------------------------------------------------
\* Inputs of one invocation: the event on stdin and the transcript file
\* ------------------------------------------------------------------------
SeqsUpTo(S, n) == UNION {[1..k -> S] : k \in 0..n}

Entry(ty, uuid) == [NoEntry EXCEPT !.type = ty, !.uuid = uuid]

Talk(ty, uuid, c, ts) ==
  [NoEntry EXCEPT !.type = ty, !.uuid = uuid, !.hasMessage = TRUE, !.msgIsMap = TRUE,
                  !.content = c, !.timestamp = ts]

Object(entry) == [shape |-> "object", entry |-> entry]

BlankLine == [shape |-> "blank", entry |-> NoEntry]

GarbageLine == [shape |-> "garbage", entry |-> NoEntry]

NonObjectLine == [shape |-> "nonobject", entry |-> NoEntry]

\* lines that are none of the four record kinds
ForeignLines ==
  {Object(Entry("summary", 1)), Object(Entry("", 2)),
   \* a user record whose 'message' is not a mapping
   Object([NoEntry EXCEPT !.type = "user", !.uuid = 3, !.hasMessage = TRUE])}

\* lines of the four record kinds
RecordLines ==
  {Object(Talk("user", 4, Str(<<"f","i","x"," ","t","h","e"," ","j","s"," ","b","u","g">>), Ts(0))),
   Object(Talk("user", 5, List(<<Block("text", "str", <<"h","i">>), ItemStr(<<"x">>)>>), NoTs)),
   Object(Talk("assistant", 6, Str(<<"f","i","x","e","d"," ","i","t","."," ","w","e"," ","s","h","o","u","l","d"," ","t","e","s","t">>), Ts(60))),
   Object(Talk("assistant", 7, Num(<<"7">>), NoTs)),
   \* a user record with an empty text
   Object(Talk("user", 18, Str(<<>>), Ts(45))),
   Object([NoEntry EXCEPT !.type = "tool_use", !.uuid = 8, !.toolName = "Edit",
                          !.input = FileInput(Str(<<"a",".","j","s">>)), !.timestamp = Ts(30)]),
   Object([NoEntry EXCEPT !.type = "tool_use", !.uuid = 9, !.toolName = "Write",
                          !.input = [k |-> "str", hasFP |-> FALSE, fp |-> Str(<<>>)]]),
   Object([NoEntry EXCEPT !.type = "tool_result", !.uuid = 10, !.toolName = "Edit",
                          !.output = Str(<<"n","o">>), !.isError = TRUE, !.timestamp = Ts(90)])}

LineSet == {BlankLine, GarbageLine, NonObjectLine} \cup ForeignLines \cup RecordLines

FsSet == {NoFile, [state |-> "unreadable", lines |-> <<>>]}
         \cup {[state |-> "ok", lines |-> ls] : ls \in SeqsUpTo(LineSet, MaxLines)}

Event(name, event, tool, input, tp) ==
  [hook_event_name |-> name, event |-> event, tool_name |-> tool, tool_input |-> input,
   transcript_path |-> tp, session_id |-> <<"s","1">>]

ToolNames == {"TodoWrite", "exit_plan_mode", "Read", "Edit", "Bash", "Task", "mcp"}

EventSet ==
  {Event("PostToolUse", "", t, i, tp) :
     t \in ToolNames, i \in {"dict", "str", "bad prompt"}, tp \in {"empty", "nonstr"}}
  \cup {Event("PostToolUse", "", t, "dict", "path") :
          t \in {"TodoWrite", "exit_plan_mode", "Edit", "Task"}}
  \cup {Event(n, "", "", "dict", tp) :
          n \in {"Notification", "Stop"}, tp \in {"empty", "nonstr", "path"}}
  \* no hook_event_name, or one that is not handled; test_hook.py sends the
  \* kind under 'event' and the tool under 'tool'
  \cup {Event(n, e, "", "dict", tp) :
          n \in {"", "SubagentStop"}, e \in {"", "PostToolUse", "Notification"},
          tp \in {"empty", "path"}}

StdinSet ==
  {[decodes |-> FALSE, isObject |-> FALSE, event |-> NoEvent],
   [decodes |-> TRUE, isObject |-> FALSE, event |-> NoEvent]}
  \cup {[decodes |-> TRUE, isObject |-> TRUE, event |-> e] : e \in EventSet}

Init ==
  /\ stdin \in StdinSet
  /\ fs \in IF stdin.event.transcript_path = "path" THEN FsSet ELSE {NoFile}
  /\ pc = "main"
  /\ event_data = NoEvent
  /\ messages = <<>>
  /\ lineNo = 0
  /\ context = ErrorContext
  /\ message = NoMessage
  /\ posts = <<>>
  /\ reads = 0
  /\ log = <<>>
  /\ exit_code = NotExited
  /\ analysis = NoAnalysis
  /\ content = Null
  /\ flat = NoFlat

Next ==
  \/ main_read_event
  \/ main_dispatch
  \/ process_tool_event
  \/ parse_open
  \/ parse_line
  \/ tool_context
  \/ create_message
  \/ process_notification
  \/ notification_message
  \/ process_stop_event
  \/ stop_analyze
  \/ stop_summarize
  \/ send
  \/ handler_return

Spec == Init /\ [][Next]_vars

\* the steps of an invocation other than the analysis of the session
other_steps ==
  \/ main_read_event
  \/ main_dispatch
  \/ process_tool_event
  \/ parse_open
  \/ parse_line
  \/ tool_context
  \/ create_message
  \/ process_notification
  \/ notification_message
  \/ process_stop_event
  \/ stop_summarize
  \/ send
  \/ handler_return

\* the states in which stop_analyze can act: its guard, both branches of the
\* test on the message list being total
analysis_pending == pc = "parsed" /\ event_data.hook_event_name = "Stop"

\* one invocation runs to its end: the interpreter executes the next statement
\* of a process that has not exited, and no step waits on anything but the
\* file and the HTTP call, which the timeout bounds.  The weak fairness of
\* stop_analyze is written out, with analysis_pending as its enabling
\* condition.
FairSpec ==
  /\ Spec
  /\ WF_vars(other_steps)
  /\ (<>[]analysis_pending => []<><<stop_analyze>>_vars)

\* ------------------------------------------------------------------------
\* _extract_text_content on its own
\* ------------------------------------------------------------------------
ItemSet ==
  {Block("text", "str", <<"a","b">>), Block("text", "missing", <<>>), Block("text", "num", <<"5">>),
   Block("image", "missing", <<>>), Block("", "str", <<"c">>), ItemStr(<<"x"," ","y">>), ItemNum(<<"4","2">>)}

ContentSet ==
  {Str(<<>>), Str(<<"a","b">>), Str(<<" ","a",".","b"," ">>), Num(<<"7">>), Null}
  \cup {List(items) : items \in SeqsUpTo(ItemSet, MaxItems)}

FlattenInit ==
  /\ content \in ContentSet
  /\ flat = NoFlat
  /\ pc = "flatten"
  /\ stdin = [decodes |-> FALSE, isObject |-> FALSE, event |-> NoEvent]
  /\ fs = NoFile
  /\ event_data = NoEvent
  /\ messages = <<>>
  /\ lineNo = 0
  /\ context = ErrorContext
  /\ message = NoMessage
  /\ posts = <<>>
  /\ reads = 0
  /\ log = <<>>
  /\ exit_code = NotExited
  /\ analysis = NoAnalysis

\* a call of _extract_text_content(content)
flatten ==
  /\ pc = "flatten"
  /\ flat' = _extract_text_content(content)
  /\ pc' = "flattened"
  /\ UNCHANGED <<stdin, fs, event_data, messages, lineNo, context, message, posts, reads,
                 log, exit_code, analysis, content>>

\* a call of _extract_text_content on the text the first call returned
flatten_again ==
  /\ pc = "flattened"
  /\ ~flat.raised
  /\ content' = Str(flat.val)
  /\ flat' = _extract_text_content(content')
  /\ pc' = "reflattened"
  /\ UNCHANGED <<stdin, fs, event_data, messages, lineNo, context, message, posts, reads,
                 log, exit_code, analysis>>

FlattenNext ==
  \/ flatten
  \/ flatten_again

FlattenSpec == FlattenInit /\ [][FlattenNext]_vars

\* ------------------------------------------------------------------------
\* analyze_session on its own: the dict literal of lines 52-61 evaluates the
\* eight facet methods in order
\* ------------------------------------------------------------------------
\* the normalized message of a record line
MessageOf(line) == _process_entry(TRUE, line.entry, <<>>).val[1]

AnalyzerLines ==
  RecordLines \cup
  {Object(Talk("user", 11, Str(<<"u","s","e"," ","j","a","v","a","s","c","r","i","p","t">>), Ts(0))),
   Object(Talk("assistant", 12, Str(<<"o","k","."," ","t","h","e"," ","p","l","a","n"," ","i","s"," ","t","o"," ","u","s","e"," ","p","y","t","h","o","n"," ","h","e","r","e">>), Ts(120))),
   Object([NoEntry EXCEPT !.type = "tool_use", !.uuid = 13, !.toolName = "Edit",
                          !.input = FileInput(List(<<ItemStr(<<"a",".","p","y">>)>>))]),
   Object([NoEntry EXCEPT !.type = "tool_use", !.uuid = 14, !.toolName = "Read",
                          !.input = FileInput(Str(<<"b",".","P","Y">>)), !.timestamp = Ts(30)]),
   Object([NoEntry EXCEPT !.type = "tool_result", !.uuid = 15, !.toolName = "Read",
                          !.output = Str(<<"o","k">>), !.timestamp = Ts(45)])}

MsgSet == {MessageOf(line) : line \in AnalyzerLines}

AnalyzerInit ==
  /\ messages \in SeqsUpTo(MsgSet, MaxMsgs)
  /\ analysis = NoAnalysis
  /\ pc = "session_goal"
  /\ stdin = [decodes |-> FALSE, isObject |-> FALSE, event |-> NoEvent]
  /\ fs = NoFile
  /\ event_data = NoEvent
  /\ lineNo = 0
  /\ context = ErrorContext
  /\ message = NoMessage
  /\ posts = <<>>
  /\ reads = 0
  /\ log = <<>>
  /\ exit_code = NotExited
  /\ content = Null
  /\ flat = NoFlat

\* one entry of the dict literal: the facet method returns and the value is
\* stored under key, or its exception reaches the except of lines 65-67
AnalyzeStep(key, result, next) ==
  /\ pc = key
  /\ IF result.raised
       THEN analysis' = [keys |-> {"error"}] /\ pc' = "analyzed"
       ELSE /\ analysis' = (key :> result.val) @@ [analysis EXCEPT !.keys = @ \cup {key}]
            /\ pc' = next
  /\ UNCHANGED <<stdin, fs, event_data, messages, lineNo, context, message, posts, reads,
                 log, exit_code, content, flat>>

session_goal == AnalyzeStep("session_goal", extract_main_objective(messages), "files_modified")

files_modified == AnalyzeStep("files_modified", get_modified_files(messages), "problems_solved")

problems_solved == AnalyzeStep("problems_solved", identify_solutions(messages), "key_decisions")

key_decisions == AnalyzeStep("key_decisions", extract_decisions(messages), "technologies_used")

technologies_used ==
  AnalyzeStep("technologies_used", identify_technologies(messages), "session_metrics")

session_metrics == AnalyzeStep("session_metrics", calculate_metrics(messages), "learning_outcomes")

learning_outcomes ==
  AnalyzeStep("learning_outcomes", extract_learnings(messages), "follow_up_items")

follow_up_items == AnalyzeStep("follow_up_items", identify_follow_ups(messages), "analyzed")

AnalyzerNext ==
  \/ session_goal
  \/ files_modified
  \/ problems_solved
  \/ key_decisions
  \/ technologies_used
  \/ session_metrics
  \/ learning_outcomes
  \/ follow_up_items

AnalyzerSpec == AnalyzerInit /\ [][AnalyzerNext]_vars

\* the stepwise evaluation returns what analyze_session returns
AnalyzerAgrees == pc = "analyzed" => analysis = analyze_session(messages)

\* ------------------------------------------------------------------------
\* The parser alone, on transcripts of tool_result lines whose outputs are
\* shorter than, as long as and longer than the limit
\* ------------------------------------------------------------------------
LongText(n) == [i \in 1..n |-> Digits[(i % 10) + 1]]

OutputValues ==
  {Str(LongText(n)) : n \in {0, 1, OutputLimit - 1} \cup (OutputLimit..(OutputLimit + MaxExcess))}
  \cup {Null, Num(<<"7">>),
        List(<<ItemStr(LongText(OutputLimit - 3)), ItemStr(<<"x">>)>>)}

ResultLine(output) ==
  Object([NoEntry EXCEPT !.type = "tool_result", !.uuid = 19, !.toolName = "Bash",
                         !.output = output])

OutputLines == {ResultLine(output) : output \in OutputValues} \cup {BlankLine}

ParserInit ==
  /\ stdin = [decodes |-> TRUE, isObject |-> TRUE, event |-> Event("Stop", "", "", "dict", "path")]
  /\ fs \in {NoFile} \cup {[state |-> "ok", lines |-> ls] : ls \in SeqsUpTo(OutputLines, MaxLines)}
  /\ pc = "parse_transcript"
  /\ event_data = stdin.event
  /\ messages = <<>>
  /\ lineNo = 0
  /\ context = ErrorContext
  /\ message = NoMessage
  /\ posts = <<>>
  /\ reads = 0
  /\ log = <<>>
  /\ exit_code = NotExited
  /\ analysis = NoAnalysis
  /\ content = Null
  /\ flat = NoFlat

ParserNext ==
  \/ parse_open
  \/ parse_line

ParserSpec == ParserInit /\ [][ParserNext]_vars

\* ------------------------------------------------------------------------
\* The summary formatter alone, on reports whose facets are empty, below,
\* at and above the number of entries the summary lists
\* ------------------------------------------------------------------------
\* files_modified with n entries; the second file was written and edited
FileEntries(n) ==
  [i \in 1..n |-> [file |-> Str(<<"f">> \o IntToStr(i) \o <<".","j","s">>),
                   operations |-> IF i = 2 THEN <<"Write", "Edit">> ELSE <<"Edit">>,
                   first_modified |-> NoTs, last_modified |-> NoTs]]

\* a list facet with n entries
Entries(letter, n) == [i \in 1..n |-> <<letter>> \o IntToStr(i)]

ReportSet ==
  {[keys |-> {"error"}]}
  \cup {[keys |-> FacetKeys,
         session_goal |-> goal,
         files_modified |-> FileEntries(nf),
         problems_solved |-> Entries("p", np),
         key_decisions |-> Entries("d", nd),
         technologies_used |-> Entries("t", nt),
         session_metrics |-> calculate_metrics(<<>>).val,
         learning_outcomes |-> Entries("l", nl),
         follow_up_items |-> Entries("u", nu)] :
          goal \in {<<>>, <<"P","r","i","m","a","r","y"," ","g","o","a","l",":"," ","f","i","x"," ","i","t">>},
          nf \in {0, 1} \cup ((MaxFiles - 2)..MaxFiles),
          np \in {0, 1, 3, 4}, nd \in {0, 3, 4},
          nt \in {0, 2}, nl \in {0, 2}, nu \in {0, 2}}

SummaryInit ==
  /\ analysis \in ReportSet
  /\ pc = "summarize"
  /\ stdin = [decodes |-> TRUE, isObject |-> TRUE, event |-> Event("Stop", "", "", "dict", "path")]
  /\ event_data = stdin.event
  /\ fs = NoFile
  /\ messages = <<>>
  /\ lineNo = 0
  /\ context = ErrorContext
  /\ message = NoMessage
  /\ posts = <<>>
  /\ reads = 0
  /\ log = <<>>
  /\ exit_code = NotExited
  /\ content = Null
  /\ flat = NoFlat

SummaryNext == stop_summarize

SummarySpec == SummaryInit /\ [][SummaryNext]_vars

\* ------------------------------------------------------------------------
\* analyze_session on long sessions: many messages of a few kinds
\* ------------------------------------------------------------------------
\* an assistant message that reports a solution, two decisions, a learning
\* and two follow-ups, and one that reports nothing
BusyLines ==
  {Object(Talk("assistant", 16, Str(<<"f","i","x","e","d","."," ","t","h","e"," ","p","l","a","n"," ","a","n","d"," ","a","p","p","r","o","a","c","h"," ","w","e"," ","l","e","a","r","n","e","d"," ","s","h","o","u","l","d"," ","w","o","r","k"," ","l","a","t","e","r">>), Ts(0))),
   Object(Talk("assistant", 17, Str(<<"o","k">>), Ts(60)))}

\* a successful and a failed tool_result line
OutcomeLines ==
  {Object([NoEntry EXCEPT !.type = "tool_result", !.uuid = 20, !.toolName = "Bash",
                          !.output = Str(<<"o","k">>)]),
   Object([NoEntry EXCEPT !.type = "tool_result", !.uuid = 21, !.toolName = "Bash",
                          !.output = Str(<<"n","o">>), !.isError = TRUE])}

\* user lines: a text of at most 10 characters, a request with a goal
\* keyword and more than 8 words after it, a text of more than 100
\* characters without a goal keyword
RequestLines ==
  {Object(Talk("user", 22, Str(<<"o","k"," ","t","h","e","n">>), Ts(0))),
   Object(Talk("user", 23, Str(<<"W","e"," ","m","u","s","t"," ","F","I","X"," ","a"," ","b"," ","c"," ","d"," ","e"," ","f"," ","g"," ","h"," ","i">>), Ts(60))),
   Object(Talk("user", 24, Str(<<" "," ","T","h","e"," ","q","u","i","c","k"," ","b","r","o","w","n"," ","f","o","x"," ","j","u","m","p","s"," ","o","v","e","r"," ","t","h","e"," ","l","a","z","y"," ","d","o","g"," ","w","h","i","l","e"," ","t","h","e"," ","f","i","v","e"," ","b","o","x","i","n","g"," ","w","i","z","a","r","d","s"," ","a","r","e"," ","j","u","m","p","i","n","g"," ","q","u","i","c","k","l","y"," ","a","n","d"," ","q","u","i","e","t","l","y","."," ">>), Ts(120)))}

ToolUse(uuid, tool, input, ts) ==
  Object([NoEntry EXCEPT !.type = "tool_use", !.uuid = uuid, !.toolName = tool,
                         !.input = input, !.timestamp = ts])

\* tool_use lines: two writes of one file, a write of a .go file under a
\* directory named src.py, reads, a write without a path, a write whose
\* file_path is a list
ToolLines ==
  {ToolUse(25, "Edit", FileInput(Str(<<"a",".","j","s">>)), Ts(30)),
   ToolUse(26, "Write", FileInput(Str(<<"a",".","j","s">>)), Ts(90)),
   ToolUse(27, "MultiEdit", FileInput(Str(<<"s","r","c",".","p","y","/","m","a","i","n",".","g","o">>)), Ts(60)),
   ToolUse(28, "Read", FileInput(Str(<<"x",".","j","s","o","n">>)), Ts(0)),
   ToolUse(29, "Edit", FileInput(Str(<<>>)), Ts(45)),
   ToolUse(30, "Edit", FileInput(List(<<ItemStr(<<"a",".","p","y">>)>>)), NoTs),
   ToolUse(31, "Read", FileInput(Str(<<"m",".","g","o">>)), NoTs)}

\* a timestamp without a UTC offset, and one that fromisoformat rejects
NaiveTs(secs) == [k |-> "iso", aware |-> FALSE, secs |-> secs]

BadTs == [k |-> "bad", aware |-> FALSE, secs |-> 0]

\* lines that differ in their timestamp: none, early, late, without offset, bad
TimeLines ==
  {Object([NoEntry EXCEPT !.type = "tool_result", !.uuid = 32, !.toolName = "Bash",
                          !.timestamp = ts]) :
     ts \in {NoTs, Ts(15), Ts(105), NaiveTs(60), BadTs}}

LongSessions ==
  SeqsUpTo({MessageOf(line) : line \in BusyLines}, MaxBusy)
  \cup SeqsUpTo({MessageOf(line) : line \in OutcomeLines}, MaxResults)
  \cup SeqsUpTo({MessageOf(line) : line \in RequestLines}, MaxUsers)
  \cup SeqsUpTo({MessageOf(line) : line \in ToolLines}, MaxTools)
  \cup SeqsUpTo({MessageOf(line) : line \in TimeLines}, MaxStamps)
  \* talk with follow-up sentences and failed results together
  \cup SeqsUpTo({MessageOf(line) : line \in BusyLines \cup OutcomeLines}, MaxMixed)

LongSessionInit ==
  /\ messages \in LongSessions
  /\ analysis = NoAnalysis
  /\ pc = "session_goal"
  /\ stdin = [decodes |-> FALSE, isObject |-> FALSE, event |-> NoEvent]
  /\ fs = NoFile
  /\ event_data = NoEvent
  /\ lineNo = 0
  /\ context = ErrorContext
  /\ message = NoMessage
  /\ posts = <<>>
  /\ reads = 0
  /\ log = <<>>
  /\ exit_code = NotExited
  /\ content = Null
  /\ flat = NoFlat

LongSessionSpec == LongSessionInit /\ [][AnalyzerNext]_vars

\* ------------------------------------------------------------------------
\* Properties
\* ------------------------------------------------------------------------
\* a line that yields a normalized message: one of the four record kinds,
\* a user/assistant record with a 'message' mapping
IsValidLine(line) ==
  /\ line.shape = "object"
  /\ line.entry.type \in RecordKinds
  /\ line.entry.type \in {"user", "assistant"} => line.entry.hasMessage /\ line.entry.msgIsMap

\* a line that decodes but is no record of the four kinds
IsForeignLine(line) == line.shape \in {"nonobject", "object"} /\ ~IsValidLine(line)

\* the normalized messages of the valid lines, in file order
ValidMessages(lines) ==
  LET valid == Filter(lines, [i \in 1..Len(lines) |-> IsValidLine(lines[i])])
  IN [i \in 1..Len(valid) |-> MessageOf(valid[i])]

ParseReturned == pc = "parsed" /\ reads > 0 /\ fs.state = "ok"

\* C1: when parse_transcript returns on a file of valid and invalid lines,
\* the result is exactly the normalized messages of the valid lines, in
\* file order, none dropped, none duplicated.
C1_ParseReturnsValidLines == ParseReturned => messages = ValidMessages(fs.lines)

\* C2: a line that decodes but is not one of the four record kinds yields
\* no message and does not stop the scan: every valid line after it has its
\* message in the result.
C2_ForeignLineDoesNotStopScan ==
  ParseReturned =>
    /\ Len(messages) <= Len(ValidMessages(fs.lines))
    /\ \A i \in 1..Len(fs.lines) : \A j \in (i + 1)..Len(fs.lines) :
         IsForeignLine(fs.lines[i]) /\ IsValidLine(fs.lines[j])
           => \E k \in 1..Len(messages) : messages[k] = MessageOf(fs.lines[j])

\* C3: _extract_text_content never raises, whatever the shape of its input.
C3_FlattenNeverRaises == pc = "flattened" => ~flat.raised

\* C4: the technologies facet never holds two entries that differ only in
\* letter case.
C4_NoCaseVariants ==
  "technologies_used" \in analysis.keys =>
    \A i, j \in 1..Len(analysis.technologies_used) :
      i # j => lower(analysis.technologies_used[i]) # lower(analysis.technologies_used[j])

\* C5: when the invocation has ended, a failed primary attempt was followed
\* by exactly one fallback attempt, and a successful one by none.
C5_OneFallbackAfterFailure ==
  pc = "done" /\ posts # <<>> =>
    IF Delivered(posts[1].outcome) THEN Len(posts) = 1 ELSE Len(posts) = 2

\* C6: an invocation makes at most one primary delivery attempt, makes none
\* once the handler has returned, and always reaches its end.
C6_OneAttemptAndEnd ==
  /\ [](Cardinality({i \in 1..Len(posts) : posts[i].endpoint = "/messages"}) <= 1)
  /\ [][pc = "done" => posts' = posts]_vars
  /\ <>(pc = "done")

C6_Witness == pc = "done" /\ Len(posts) = 1 /\ ~Delivered(posts[1].outcome)

\* C7 as claimed: the exit status is nonzero exactly when the text on stdin
\* does not decode.
C7_NonzeroIffUndecodable == pc = "done" => (exit_code # 0 <=> ~stdin.decodes)

\* C7 amended: the exit status is nonzero exactly when the text on stdin
\* does not decode to a JSON object; every input that decodes to an object
\* ends with status 0, whatever fails while it is processed.
C7_NonzeroIffNotAnObject ==
  pc = "done" => /\ exit_code \in {0, 1}
                 /\ exit_code # 0 <=> ~(stdin.decodes /\ stdin.isObject)

C7_Witness ==
  /\ pc = "done"
  /\ exit_code = 0
  /\ stdin.event.hook_event_name = "Stop"
  /\ \E i \in 1..Len(log) : log[i] = "error: Error processing stop event"

\* C8: an event whose hook_event_name is missing or is none of PostToolUse,
\* Notification, Stop is a no-op: the transcript is never read, nothing is
\* sent, and the exit status is 0.
C8_UnknownEventIsNoOp ==
  stdin.decodes /\ stdin.isObject
  /\ stdin.event.hook_event_name \notin {"PostToolUse", "Notification", "Stop"}
  => /\ reads = 0
     /\ posts = <<>>
     /\ pc \in {"main", "dispatch", "done"}
     /\ pc = "done" => exit_code = 0

C8_Witness ==
  /\ pc = "done"
  /\ stdin.event.hook_event_name = ""
  /\ stdin.event.event = "PostToolUse"
  /\ fs.state = "ok"
  /\ \E i \in 1..Len(fs.lines) : IsValidLine(fs.lines[i])

IsToolEvent == stdin.decodes /\ stdin.isObject /\ stdin.event.hook_event_name = "PostToolUse"

\* C9: a PostToolUse event for TodoWrite or exit_plan_mode never reads the
\* transcript and never sends; a PostToolUse event for another tool, once
\* its message is built, ends with exactly one delivery attempt.
C9_SkippedToolsNeverSend ==
  IsToolEvent =>
    IF stdin.event.tool_name \in {"TodoWrite", "exit_plan_mode"}
      THEN reads = 0 /\ posts = <<>>
      ELSE /\ pc = "done" => message.kind = "tool" /\ Len(posts) = 1
           /\ Len(posts) <= 1

C9_Witness ==
  /\ IsToolEvent
  /\ pc = "done"
  /\ stdin.event.tool_name = "exit_plan_mode"
  /\ stdin.event.transcript_path = "path"
  /\ fs.state = "ok"

\* C10: when a facet computation fails, the report still has its eight
\* keys; the failed facet holds its default and every other facet the
\* value its computation gives on the same messages.
C10_FacetFailureIsIsolated ==
  pc = "analyzed" =>
    /\ analysis.keys = FacetKeys
    /\ analysis.session_goal = IF ObjectiveBody(messages).raised THEN ObjectiveError
                               ELSE ObjectiveBody(messages).val
    /\ analysis.files_modified = IF ModifiedFilesBody(messages).raised THEN <<>>
                                 ELSE ModifiedFilesBody(messages).val
    /\ analysis.problems_solved = IF SolutionsBody(messages).raised THEN <<>>
                                  ELSE SolutionsBody(messages).val
    /\ analysis.key_decisions = IF DecisionsBody(messages).raised THEN <<>>
                                ELSE DecisionsBody(messages).val
    /\ analysis.technologies_used = IF TechnologiesBody(messages).raised THEN <<>>
                                    ELSE TechnologiesBody(messages).val
    /\ analysis.session_metrics = calculate_metrics(messages).val
    /\ analysis.learning_outcomes = IF LearningsBody(messages).raised THEN <<>>
                                    ELSE LearningsBody(messages).val
    /\ analysis.follow_up_items = IF FollowUpsBody(messages).raised THEN <<>>
                                  ELSE FollowUpsBody(messages).val

C10_Witness ==
  /\ pc = "analyzed"
  /\ ModifiedFilesBody(messages).raised
  /\ analysis.keys = FacetKeys
  /\ analysis.files_modified = <<>>
  /\ analysis.session_goal = <<"S","e","s","s","i","o","n"," ","f","o","c","u","s",":"," ","u","s","e"," ","j","a","v","a","s","c","r","i","p","t",".",".",".">>
  /\ analysis.session_metrics.tools_used = 1

\* C11: whatever the length of the session, the report holds at most 5
\* solved problems, 5 decisions, 3 learnings and 5 follow-ups.
C11_FacetCaps ==
  /\ "problems_solved" \in analysis.keys => Len(analysis.problems_solved) <= 5
  /\ "key_decisions" \in analysis.keys => Len(analysis.key_decisions) <= 5
  /\ "learning_outcomes" \in analysis.keys => Len(analysis.learning_outcomes) <= 3
  /\ "follow_up_items" \in analysis.keys => Len(analysis.follow_up_items) <= 5

\* six messages that each report a solution, two decisions, a learning and
\* two follow-ups: every cap is reached
C11_Witness ==
  /\ pc = "analyzed"
  /\ Len(messages) = 6
  /\ \A i \in 1..6 : messages[i].uuid = 16
  /\ Len(analysis.problems_solved) = 5
  /\ Len(analysis.key_decisions) = 5
  /\ Len(analysis.learning_outcomes) = 3
  /\ Len(analysis.follow_up_items) = 5

\* C12: the report of the empty session has its eight facets, each at its
\* default: the 'no objective' goal, six empty lists, counts of 0, a
\* success rate of N/A and an Unknown duration.
C12_EmptySessionDefaults ==
  pc = "analyzed" /\ messages = <<>> =>
    analysis = [keys |-> FacetKeys,
                session_goal |-> <<"N","o"," ","c","l","e","a","r"," ","o","b","j","e","c","t","i","v","e"," ","i","d","e","n","t","i","f","i","e","d">>,
                files_modified |-> <<>>,
                problems_solved |-> <<>>,
                key_decisions |-> <<>>,
                technologies_used |-> <<>>,
                session_metrics |-> [total_messages |-> 0, user_messages |-> 0,
                                     assistant_messages |-> 0, tools_used |-> 0,
                                     successful_operations |-> 0, failed_operations |-> 0,
                                     success_rate |-> <<"N","/","A">>,
                                     session_duration |-> <<"U","n","k","n","o","w","n">>],
                learning_outcomes |-> <<>>,
                follow_up_items |-> <<>>]

C12_Witness == pc = "analyzed" /\ messages = <<>> /\ analysis.keys = FacetKeys

\* the PostToolUse handler has extracted the context of a parsed transcript
\* that holds a message
ContextExtracted ==
  /\ pc = "create_message"
  /\ event_data.hook_event_name = "PostToolUse"
  /\ event_data.transcript_path = "path"
  /\ messages # <<>>

\* the contents of the user and assistant messages of a window are texts
\* or sequences of blocks
TextWindow(recent) ==
  \A i \in 1..Len(recent) :
    recent[i].type \in {"user", "assistant"} => recent[i].content.k \in {"str", "list"}

\* a content cut to 500 characters; the block sequences of the model hold
\* fewer than 500 characters, so the cut leaves them whole
CutContent(v) == IF v.k = "str" THEN Str(Prefix(v.s, ResponseLimit)) ELSE v

\* C13: last_user_request is the content of the most recent user message of
\* the last 20 messages, last_assistant_response the content of the most
\* recent assistant message of the last 20 cut to 500 characters, whatever
\* the content is; the three counts are those of the last 20 messages.
C13_MostRecentIsCaptured ==
  ContextExtracted /\ TextWindow(Suffix(messages, ContextWindow)) =>
    LET recent == Suffix(messages, ContextWindow)
        users == OfType(recent, "user")
        assistants == OfType(recent, "assistant")
    IN /\ ~context.error
       /\ users # <<>> => context.last_user_request = users[Len(users)].content
       /\ assistants # <<>> =>
            context.last_assistant_response = CutContent(assistants[Len(assistants)].content)
       /\ context.user_message_count = Len(users)
       /\ context.assistant_message_count = Len(assistants)
       /\ context.tool_use_count = Len(OfType(recent, "tool_use"))

\* C14: the context always carries last_user_request and
\* last_assistant_response, a placeholder standing in for a missing capture
\* (no transcript path, no message, no user or assistant message in the
\* window), so the message built for delivery always has its user-request
\* part and its assistant-context part.
C14_ContextHasBothCaptures ==
  message.kind = "tool" =>
    /\ ~context.error
    /\ Truthy(context.last_user_request)
    /\ Truthy(context.last_assistant_response)
    /\ message.user_request # Null
    /\ message.claude_context # Null

\* C15: for every tool_result line the stored output is the stringified
\* original output cut to its first 500 characters: the original itself when
\* it has at most 500 characters, exactly its 500-character prefix otherwise,
\* and never longer than 500 characters.
C15_StoredOutputIsPrefix ==
  [][(pc = "parse_line" /\ lineNo <= Len(fs.lines)
        /\ fs.lines[lineNo].shape = "object"
        /\ fs.lines[lineNo].entry.type = "tool_result") =>
       LET original == StrValue(fs.lines[lineNo].entry.output)
           stored == messages'[Len(messages')].output
       IN /\ Len(messages') = Len(messages) + 1
          /\ messages'[Len(messages')].type = "tool_result"
          /\ Len(stored) <= 500
          /\ Len(original) <= 500 => stored = original
          /\ Len(original) > 500 =>
               Len(stored) = 500 /\ \A i \in 1..500 : stored[i] = original[i]]_vars

C15_Witness ==
  /\ pc = "parsed"
  /\ Len(messages) = 2
  /\ Len(fs.lines) = 2
  /\ Len(StrValue(fs.lines[1].entry.output)) = 501
  /\ Len(messages[1].output) = 500
  /\ fs.lines[2].entry.output.k = "list"
  /\ Len(StrValue(fs.lines[2].entry.output)) > 500
  /\ Len(messages[2].output) = 500

\* C16: success_rate is the literal 'N/A' exactly when the session has no
\* tool_result message; otherwise it is the share of tool_result messages
\* that are not errors, times 100, written with one decimal and a percent
\* sign (7 of 10 give '70.0%'), between '0.0%' and '100.0%'.
C16_SuccessRate ==
  "session_metrics" \in analysis.keys =>
    LET results == OfType(messages, "tool_result")
        total == Len(results)
        successes == Cardinality({i \in 1..total : ~results[i].error})
        rate == analysis.session_metrics.success_rate
    IN /\ rate = <<"N","/","A">> <=> total = 0
       /\ total > 0 =>
            \E tenths \in 0..1000 :
              /\ rate = FormatTenths(tenths) \o <<"%">>
              \* tenths / 10 is successes / total * 100 rounded to one decimal
              /\ 2 * tenths * total <= 2000 * successes + total
              /\ 2 * tenths * total >= 2000 * successes - total
       /\ (total = 10 /\ successes = 7) => rate = <<"7","0",".","0","%">>

C16_Witness ==
  /\ pc = "analyzed"
  /\ Len(messages) = 10
  /\ Cardinality({i \in 1..10 : messages[i].type = "tool_result" /\ ~messages[i].error}) = 7
  /\ Cardinality({i \in 1..10 : messages[i].type = "tool_result" /\ messages[i].error}) = 3
  /\ analysis.session_metrics.success_rate = <<"7","0",".","0","%">>

\* the facets in the order of their sections, and the heading of each
SectionFacets ==
  <<"session_goal", "files_modified", "problems_solved", "key_decisions",
    "technologies_used", "session_metrics", "learning_outcomes", "follow_up_items">>

SectionHeadings ==
  << <<"U+1F3AF">> \o <<" ","S","E","S","S","I","O","N"," ","G","O","A","L",":">>,
     <<"U+1F4C1">> \o <<" ","F","I","L","E","S"," ","M","O","D","I","F","I","E","D",":">>,
     <<"U+2705">> \o <<" ","P","R","O","B","L","E","M","S"," ","S","O","L","V","E","D",":">>,
     <<"U+1F504">> \o <<" ","K","E","Y"," ","D","E","C","I","S","I","O","N","S",":">>,
     <<"U+1F6E0", "U+FE0F">> \o <<" ","T","E","C","H","N","O","L","O","G","I","E","S"," ","U","S","E","D",":">>,
     <<"U+1F4CA">> \o <<" ","S","E","S","S","I","O","N"," ","M","E","T","R","I","C","S",":">>,
     <<"U+1F4A1">> \o <<" ","K","E","Y"," ","L","E","A","R","N","I","N","G","S",":">>,
     <<"U+1F51C">> \o <<" ","F","O","L","L","O","W","-","U","P"," ","I","T","E","M","S",":">> >>

\* the facet of the report is there and not empty
FacetNonEmpty(key) ==
  key \in analysis.keys /\ (key = "session_metrics" \/ analysis[key] # <<>>)

FacetSize(key) == IF key \in analysis.keys THEN Len(analysis[key]) ELSE 0

Least(a, b) == IF a < b THEN a ELSE b

\* the entries listed under the heading at line h: the bullet lines from
\* there to the next empty line
ListedAfter(lines, h) ==
  {i \in (h + 1)..Len(lines) :
     /\ Prefix(lines[i], Len(Bullet)) = Bullet
     /\ \A j \in (h + 1)..i : lines[j] # <<>>}

\* C17: the summary lists its sections in the order header, goal, modified
\* files, solved problems, decisions, technologies, metrics, learnings,
\* follow-ups; a heading appears if and only if its facet is non-empty; at
\* most 5 files, 3 solved problems and 3 decisions are listed; the
\* 'and N more files' line appears exactly when there are more than 5 files,
\* with N the number of files minus 5.
C17_SummaryLayout ==
  message.kind = "summary" =>
    \E lines \in {SplitOn(message.content, "\n")} :
      LET at(k) == {i \in 1..Len(lines) : lines[i] = SectionHeadings[k]}
          line(k) == CHOOSE i \in at(k) : TRUE
          listed(k) == Cardinality(ListedAfter(lines, line(k)))
          more == {i \in 1..Len(lines) : Prefix(lines[i], 10) = <<" "," ",".",".","."," ","a","n","d"," ">>}
          files == FacetSize("files_modified")
      IN /\ Len(lines) >= 4
         /\ lines[1] = <<"=","=","="," ","S","E","S","S","I","O","N"," ","S","U","M","M","A","R","Y"," ","=","=","=">>
         /\ Prefix(lines[2], 12) = <<"S","e","s","s","i","o","n"," ","I","D",":"," ">>
         /\ Prefix(lines[3], 16) = <<"T","o","t","a","l"," ","M","e","s","s","a","g","e","s",":"," ">>
         /\ \A k \in 1..8 :
              /\ at(k) # {} <=> FacetNonEmpty(SectionFacets[k])
              /\ Cardinality(at(k)) <= 1
              /\ \A i \in at(k) : i > 4
         /\ \A k1, k2 \in 1..8 :
              k1 < k2 /\ at(k1) # {} /\ at(k2) # {} => line(k1) < line(k2)
         /\ at(2) # {} => listed(2) = Least(files, 5)
         /\ at(3) # {} => listed(3) = Least(FacetSize("problems_solved"), 3)
         /\ at(4) # {} => listed(4) = Least(FacetSize("key_decisions"), 3)
         /\ more # {} <=> files > 5
         /\ \A i \in more :
              /\ lines[i] = <<" "," ",".",".","."," ","a","n","d"," ">> \o IntToStr(files - 5) \o <<" ","m","o","r","e"," ","f","i","l","e","s">>
              /\ i = line(2) + 7
              /\ Cardinality(more) = 1

C17_Witness ==
  /\ message.kind = "summary"
  /\ FacetSize("files_modified") = 6
  /\ FacetSize("problems_solved") = 4
  /\ FacetSize("key_decisions") = 4
  /\ ~FacetNonEmpty("learning_outcomes")
  /\ FacetNonEmpty("follow_up_items")
  /\ \E lines \in {SplitOn(message.content, "\n")} :
       /\ \E i \in 1..Len(lines) : lines[i] = <<" "," ",".",".","."," ","a","n","d"," ","1"," ","m","o","r","e"," ","f","i","l","e","s">>
       /\ \A i \in 1..Len(lines) : lines[i] # SectionHeadings[7]
       /\ \E i \in 1..Len(lines) : lines[i] = SectionHeadings[8]

\* C18: flatten returns a string argument unchanged, and is idempotent:
\* flattening the text a call returned gives that text again.
C18_FlattenIdempotent ==
  /\ [](pc \in {"flattened", "reflattened"} /\ content.k = "str" =>
         ~flat.raised /\ flat.val = content.s)
  /\ [][pc = "flattened" /\ ~flat.raised => ~flat'.raised /\ flat'.val = flat.val]_vars

C18_Witness ==
  /\ pc = "reflattened"
  /\ content = Str(<<"x"," ","y"," ","4","2">>)
  /\ flat = [raised |-> FALSE, val |-> <<"x"," ","y"," ","4","2">>]

\* the texts of the user messages among the first 10 messages that are
\* longer than 10 characters once flattened and stripped
QualifyingRequests(msgs) ==
  LET ums == OfType(Prefix(msgs, 10), "user")
      texts == [i \in 1..Len(ums) |-> strip(_extract_text_content(ums[i].content).val)]
  IN Filter(texts, [i \in 1..Len(texts) |-> Len(texts[i]) > 10])

\* every user message among the first 10 has a content that flatten accepts
RequestsFlatten(msgs) ==
  \A i \in 1..Len(msgs) :
    i <= 10 /\ msgs[i].type = "user" => ~_extract_text_content(msgs[i].content).raised

\* C19: the main request is picked among the first 3 qualifying user
\* messages: the user messages of 10 characters or fewer are discarded
\* before the first 3 are taken, so a long user message preceded by three
\* short ones is still considered.
C19_ShortDiscardedBeforeFirstThree ==
  "session_goal" \in analysis.keys /\ RequestsFlatten(messages) =>
    LET first3 == Prefix(QualifyingRequests(messages), 3)
    IN IF first3 = <<>> THEN analysis.session_goal = NoObjective
       ELSE analysis.session_goal = GoalFrom(MaxByLen(first3))

\* C20: when a word of the lowercased main request is a goal keyword, the
\* goal is 'Primary goal: ' and the window around the first such word, from
\* up to 2 words before it through 8 words after it; otherwise it is
\* 'Session focus: ', the first 100 characters of the main request and '...'.
C20_GoalWindow ==
  /\ "session_goal" \in analysis.keys
  /\ ~MainRequests(messages).raised
  /\ MainRequests(messages).val # <<>>
  => LET main_request == MaxByLen(MainRequests(messages).val)
         words == SplitWs(lower(main_request))
         hits == {i \in 1..Len(words) : \E k \in 1..Len(goal_keywords) : goal_keywords[k] = words[i]}
         hit == CHOOSE i \in hits : \A j \in hits : i <= j
     IN IF hits # {}
          THEN analysis.session_goal =
                 <<"P","r","i","m","a","r","y"," ","g","o","a","l",":"," ">> \o
                 Join(<<" ">>, SubSeq(words, IF hit > 2 THEN hit - 2 ELSE 1,
                                             IF hit + 8 < Len(words) THEN hit + 8 ELSE Len(words)))
          ELSE analysis.session_goal =
                 <<"S","e","s","s","i","o","n"," ","f","o","c","u","s",":"," ">> \o Prefix(main_request, 100) \o <<".",".",".">>

FailedResults(msgs) ==
  Cardinality({i \in 1..Len(msgs) : msgs[i].type = "tool_result" /\ msgs[i].error})

\* C21: whenever a tool_result of the session is an error, follow_up_items
\* holds the entry 'Review N failed operations', N the number of such
\* results, however many follow-up sentences the assistant messages gave.
C21_FailedOperationsReported ==
  "follow_up_items" \in analysis.keys /\ FailedResults(messages) > 0 =>
    \E i \in 1..Len(analysis.follow_up_items) :
      analysis.follow_up_items[i] =
        <<"R","e","v","i","e","w"," ">> \o IntToStr(FailedResults(messages)) \o <<" ","f","a","i","l","e","d"," ","o","p","e","r","a","t","i","o","n","s">>

\* the file_path a tool_use targets, empty when its input has none
TargetPath(msg) ==
  IF msg.input.k = "dict" /\ msg.input.hasFP THEN msg.input.fp ELSE Str(<<>>)

\* the indices of the tool_uses named Write, Edit or MultiEdit that target
\* a non-empty file_path
FileWrites(msgs) ==
  {i \in 1..Len(msgs) :
     /\ msgs[i].type = "tool_use"
     /\ msgs[i].tool \in {"Write", "Edit", "MultiEdit"}
     /\ TargetPath(msgs[i]) \notin {Str(<<>>), Null}}

\* C22: files_modified has exactly one entry per distinct non-empty
\* file_path targeted by a Write, Edit or MultiEdit tool_use, in the order
\* of first occurrence; the operations of an entry are the tool names of
\* these tool_uses on the path in sequence order, first_modified the
\* timestamp of the first and last_modified that of the last; other
\* tool_uses contribute nothing.
C22_OneEntryPerWrittenPath ==
  "files_modified" \in analysis.keys =>
    LET writes == FileWrites(messages)
        on(p) == {i \in writes : TargetPath(messages[i]) = p}
        firsts == SelectIdx(Len(messages),
                    [i \in 1..Len(messages) |->
                       i \in writes /\ \A j \in on(TargetPath(messages[i])) : i <= j])
        ops(p) == SelectIdx(Len(messages), [i \in 1..Len(messages) |-> i \in on(p)])
    IN analysis.files_modified =
         [k \in 1..Len(firsts) |->
            LET p == TargetPath(messages[firsts[k]])
            IN [file |-> p,
                operations |-> [n \in 1..Len(ops(p)) |-> messages[ops(p)[n]].tool],
                first_modified |-> messages[firsts[k]].timestamp,
                last_modified |-> messages[ops(p)[Len(ops(p))]].timestamp]]

\* the timestamps of the messages that carry one, in sequence order
Stamps(msgs) ==
  LET stamped == Filter(msgs, [i \in 1..Len(msgs) |-> msgs[i].timestamp.k # "none"])
  IN [i \in 1..Len(stamped) |-> stamped[i].timestamp]

\* text is seconds / 60 with one decimal, followed by ' minutes'
IsMinutes(text, seconds) ==
  LET size == IF seconds < 0 THEN -seconds ELSE seconds
  IN \E tenths \in 0..(size + 1) :
       /\ text = (IF seconds < 0 THEN <<"-">> ELSE <<>>) \o FormatTenths(tenths) \o <<" ","m","i","n","u","t","e","s">>
       /\ 12 * tenths <= 2 * size + 6
       /\ 12 * tenths >= 2 * size - 6

\* C23 as stated: session_duration is 'Unknown' when fewer than 2 messages
\* carry a timestamp or when a timestamp cannot be parsed; otherwise it is
\* the last timestamp in sequence order minus the first, in minutes with one
\* decimal, negative when the log is out of chronological order.
C23_UnknownOnlyWhenUnparsed ==
  "session_metrics" \in analysis.keys =>
    LET stamps == Stamps(messages)
        first == stamps[1]
        last == stamps[Len(stamps)]
        duration == analysis.session_metrics.session_duration
    IN IF Len(stamps) < 2 \/ first.k = "bad" \/ last.k = "bad"
         THEN duration = <<"U","n","k","n","o","w","n">>
         ELSE IsMinutes(duration, last.secs - first.secs)

\* C23, amended: session_duration is 'Unknown' when fewer than 2 messages
\* carry a timestamp, when the first or the last of these timestamps cannot
\* be parsed, or when only one of the two carries a UTC offset; otherwise it
\* is the last timestamp in sequence order minus the first, in minutes with
\* one decimal, negative when the log is out of chronological order.
C23_DurationInSequenceOrder ==
  "session_metrics" \in analysis.keys =>
    LET stamps == Stamps(messages)
        first == stamps[1]
        last == stamps[Len(stamps)]
        duration == analysis.session_metrics.session_duration
    IN IF Len(stamps) < 2 \/ first.k = "bad" \/ last.k = "bad" \/ first.aware # last.aware
         THEN duration = <<"U","n","k","n","o","w","n">>
         ELSE IsMinutes(duration, last.secs - first.secs)

C23_Witness ==
  /\ pc = "analyzed"
  /\ Len(messages) = 3
  /\ messages[1].timestamp = Ts(105)
  /\ messages[2].timestamp = BadTs
  /\ messages[3].timestamp = Ts(15)
  /\ analysis.session_metrics.session_duration = <<"-","1",".","5"," ","m","i","n","u","t","e","s">>

\* the known extensions and the language of each
KnownExtensions ==
  << <<<<".","p","y">>, <<"P","y","t","h","o","n">>>>, <<<<".","j","s">>, <<"J","a","v","a","S","c","r","i","p","t">>>>, <<<<".","t","s">>, <<"T","y","p","e","S","c","r","i","p","t">>>>,
     <<<<".","j","a","v","a">>, <<"J","a","v","a">>>>, <<<<".","g","o">>, <<"G","o">>>> >>

\* the str file_paths of the tool_uses, lower-cased
ToolPaths(msgs) ==
  {lower(msgs[i].input.fp.s) :
     i \in {j \in 1..Len(msgs) : /\ msgs[j].type = "tool_use"
                                 /\ msgs[j].input.k = "dict"
                                 /\ msgs[j].input.hasFP
                                 /\ msgs[j].input.fp.k = "str"}}

HasExtension(path, ext) == Suffix(path, Len(ext)) = ext

\* a user or assistant message mentions the word
Mentioned(msgs, word) ==
  \E i \in 1..Len(msgs) :
    /\ msgs[i].type \in {"user", "assistant"}
    /\ ~_extract_text_content(msgs[i].content).raised
    /\ Contains(word, lower(_extract_text_content(msgs[i].content).val))

\* C24: for every tool_use whose file_path has a known extension the
\* technologies facet holds the language of that extension, whatever else
\* the path contains; a path with none of these extensions adds no language.
C24_LanguageOfExtension ==
  "technologies_used" \in analysis.keys =>
    LET listed == {analysis.technologies_used[i] : i \in 1..Len(analysis.technologies_used)}
    IN \A e \in 1..Len(KnownExtensions) :
         LET ext == KnownExtensions[e][1]
             language == KnownExtensions[e][2]
             used == \E path \in ToolPaths(messages) : HasExtension(path, ext)
         IN /\ used => language \in listed
            /\ language \in listed => used \/ Mentioned(messages, lower(language))

\* the follow-up entry for n failed operations
ReviewEntry(n) == <<"R","e","v","i","e","w"," ">> \o IntToStr(n) \o <<" ","f","a","i","l","e","d"," ","o","p","e","r","a","t","i","o","n","s">>

IsReviewEntry(entry) ==
  Prefix(entry, 7) = <<"R","e","v","i","e","w"," ">> /\ Suffix(entry, 18) = <<" ","f","a","i","l","e","d"," ","o","p","e","r","a","t","i","o","n","s">>

\* C25: on a message sequence produced by the parser the counts of the
\* metrics agree: successful_operations + failed_operations is the number of
\* tool_result messages, the five counts add up to total_messages, and
\* failed_operations is the N of the 'Review N failed operations' follow-up.
C25_CountsAreConsistent ==
  "session_metrics" \in analysis.keys =>
    LET metrics == analysis.session_metrics
        operations == metrics.successful_operations + metrics.failed_operations
    IN /\ operations = Len(OfType(messages, "tool_result"))
       /\ metrics.total_messages = Len(messages)
       /\ metrics.user_messages + metrics.assistant_messages + metrics.tools_used + operations
            = metrics.total_messages
       /\ "follow_up_items" \in analysis.keys =>
            \A i \in 1..Len(analysis.follow_up_items) :
              IsReviewEntry(analysis.follow_up_items[i]) =>
                /\ metrics.failed_operations > 0
                /\ analysis.follow_up_items[i] = ReviewEntry(metrics.failed_operations)

C25_Witness ==
  /\ pc = "summarize"
  /\ Len(fs.lines) = 2
  /\ Len(messages) = 2
  /\ analysis.session_metrics.user_messages = 1
  /\ analysis.session_metrics.failed_operations = 1
  /\ analysis.session_metrics.total_messages = 2
  /\ analysis.follow_up_items = <<ReviewEntry(1)>>

====
